---- MODULE Spec2Model ----
(***************************************************************************)
(* A model of the hashcli terminal assistant: the conversation             *)
(* orchestrator (LLMHandler), the history store it writes to, the shell    *)
(* and filesystem tools, and the three provider adapters.                  *)
(*                                                                         *)
(* Python strings are TLA+ strings; `in`, startswith, lower() and string   *)
(* concatenation are computed on them character by character.              *)
(***************************************************************************)
EXTENDS Integers, Sequences, FiniteSets, TLC

VARIABLES
    \* ---- LLMHandler and its ConversationHistory
    config,              \* HashConfig fields the orchestrator reads
    current_session_id,  \* LLMHandler.current_session_id, 0 is None
    sessions,            \* sessions table: id -> [updated_at]
    messages,            \* messages table, in rowid order
    now,                 \* last value read from CURRENT_TIMESTAMP (seconds)
    pc,                  \* position inside LLMHandler.chat
    message,             \* the argument of the running chat call
    context_messages,    \* local of chat
    response,            \* local of chat
    tool_results,        \* local of _handle_tool_calls
    idx,                 \* index of the for loop of _handle_tool_calls
    ret,                 \* what chat returned, NoValue while it runs
    raised,              \* the exception that left chat, NoValue if none
    exception,           \* e of chat's except clause, NoValue if no step raised
    turns,               \* number of chat calls made
    generate_calls,      \* the generate_response calls of this turn
    responses,           \* what each of them returned
    events,              \* what the tool phase of this turn did, in order
    \* ---- ShellTool.execute(arguments, config)
    tool_arguments,      \* the arguments dict of the running tool call
    tool_pc,             \* "ready" before execute is awaited, "done" after
    tool_result,         \* the string execute returned, NoValue if none
    tool_raised,         \* the exception that left execute, NoValue if none
    spawned,             \* the subprocess.run calls execute made
    \* ---- FileSystemTool.execute(arguments, config)
    filesystem,          \* the files and directories: path -> node
    opened,              \* the open() calls of the running tool call
    fs_calls,            \* number of filesystem tool calls made
    tool_call_name,      \* tool_call.name, by which the executor was looked up
    \* ---- LLMProvider.generate_response(messages, tools, stream_handler)
    provider,            \* the adapter: its name, model and config.streaming
    gen_arguments,       \* messages, tools and whether a stream_handler is given
    request,             \* request_params, PyNone until built
    vendor_response,     \* local response, PyNone until the vendor answered
    streamed_content,    \* local streamed_content
    sink,                \* the arguments of the stream_handler calls, in order
    llm_response,        \* the LLMResponse returned, NoResponse while running
    gen_exception,       \* the exception an except clause caught, PyNone if none
    gen_raised,          \* the exception that left generate_response, PyNone if none
    received,            \* items of the vendor's stream read in this call
    gen_pc,              \* position inside generate_response
    gen_calls,           \* number of generate_response calls made
    gen_history,         \* per call: the context and tools passed, the request built
    \* ---- ConversationHistory.get_recent_messages(session_id, limit) called directly
    recent_call,         \* the arguments of the last call and the rows stored then
    recent               \* the list the last call returned

chatVars == <<config, current_session_id, sessions, messages, now, pc, message,
              context_messages, response, tool_results, idx, ret, raised,
              exception, turns, generate_calls, responses, events>>

toolVars == <<tool_arguments, tool_pc, tool_result, tool_raised, spawned>>

fsVars == <<filesystem, opened, fs_calls, tool_call_name>>

adapterVars == <<provider, gen_arguments, request, vendor_response,
                 streamed_content, sink, llm_response, gen_exception,
                 gen_raised, received, gen_pc, gen_calls, gen_history>>

queryVars == <<recent_call, recent>>

\* what LLMHandler.chat never touches
nonChatVars == <<toolVars, fsVars, adapterVars, queryVars>>

vars == <<chatVars, toolVars, fsVars, adapterVars, queryVars>>

----------------------------------------------------------------------------
(* Bounds of the model *)

MaxTurns == 2
MaxToolCalls == 2
MaxClock == 1

----------------------------------------------------------------------------
(* String helpers: Python's str operations *)

\* p in s
Contains(s, p) ==
    \E i \in 1..(Len(s) - Len(p) + 1) : SubSeq(s, i, i + Len(p) - 1) = p

\* s.startswith(p)
StartsWith(s, p) == Len(p) <= Len(s) /\ SubSeq(s, 1, Len(p)) = p

NoValue == "<none>"

\* Python values whose type the code tests or that may be None
PyStr(s) == [type |-> "str", v |-> s]
PyList(l) == [type |-> "list", v |-> l]
PyNone == [type |-> "None", v |-> <<>>]

----------------------------------------------------------------------------
(* The environment of the orchestrator: inputs, provider and tool outcomes *)

UserMessages == {"list files"}

\* contents a provider may put in an LLMResponse
Contents == {"", "alpha"}

\* messages of the exceptions a step may raise (subclasses of Exception)
ErrMsgs == {"API Error", "database is locked"}

\* outputs a tool's execute may return
ToolOutputs == {"ok"}

\* messages of the exceptions a tool's execute may raise
ToolErrMsgs == {"boom"}

ToolCall(name, arguments, call_id) ==
    [name |-> name, arguments |-> arguments, call_id |-> call_id]

\* the tool calls a provider may emit
ToolCallPool ==
    { ToolCall("web_search", "{\"query\": \"tla\"}", "call_1"),
      ToolCall("no_such_tool", "{}", "call_2") }

RECURSIVE SeqsUpTo(_, _)
SeqsUpTo(S, n) ==
    IF n = 0 THEN {<<>>}
    ELSE LET shorter == SeqsUpTo(S, n - 1)
         IN  shorter \cup {Append(s, x) : s \in {t \in shorter : Len(t) = n - 1}, x \in S}

ToolCallLists == SeqsUpTo(ToolCallPool, MaxToolCalls)

\* the tool calls a follow-up response may carry
FollowUpToolCallLists == SeqsUpTo(ToolCallPool, 1)

LLMResponse(content, tool_calls) == [content |-> content, tool_calls |-> tool_calls]

\* a response that never reports its tool calls
has_tool_calls_Never(r) == FALSE

has_tool_calls(r) == Len(r.tool_calls) > 0

NoResponse == LLMResponse(NoValue, <<>>)

----------------------------------------------------------------------------
(* ConversationHistory: the SQLite store *)

Row(session_id, role, content, timestamp) ==
    [session_id |-> session_id, role |-> role, content |-> content,
     timestamp |-> timestamp]

\* the values CURRENT_TIMESTAMP may have at the next statement: the clock has
\* one-second resolution and never runs backwards
CURRENT_TIMESTAMP == now..MaxClock

\* start_session: INSERT INTO sessions; the id is a fresh uuid4
start_session_id == Cardinality(DOMAIN sessions) + 1

start_session_rows(t) == sessions @@ (start_session_id :> [updated_at |-> t])

\* end_session: UPDATE sessions SET updated_at = CURRENT_TIMESTAMP WHERE id = ?
end_session_rows(session_id, t) ==
    [s \in DOMAIN sessions |->
        IF s = session_id THEN [updated_at |-> t] ELSE sessions[s]]

\* add_message without its INSERT
add_message_rows_NoInsert(session_id, role, content, t) == messages

\* add_message: INSERT INTO messages, then the session's timestamp is touched
add_message_rows(session_id, role, content, t) ==
    Append(messages, Row(session_id, role, content, t))

\* rowids of a session's messages
SessionRowIds(session_id) ==
    {i \in 1..Len(messages) : messages[i].session_id = session_id}

\* the orders in which ORDER BY timestamp DESC may deliver the rows I: rows
\* with equal timestamps come in an order the query leaves unspecified;
\* SQLite delivers them in the order of the scan that feeds the sort, rowids
\* ascending (the index on session_id) or descending (the index on timestamp
\* walked backwards)
RECURSIVE ScanOrder(_, _)
ScanOrder(I, ascending) ==
    IF I = {} THEN <<>>
    ELSE LET i == CHOOSE j \in I : \A k \in I :
                      \/ messages[j].timestamp > messages[k].timestamp
                      \/ /\ messages[j].timestamp = messages[k].timestamp
                         /\ IF ascending THEN j <= k ELSE j >= k
         IN  <<i>> \o ScanOrder(I \ {i}, ascending)

DescOrders(I) == {ScanOrder(I, TRUE), ScanOrder(I, FALSE)}

Min(a, b) == IF a <= b THEN a ELSE b

Reverse(s) == [i \in 1..Len(s) |-> s[Len(s) + 1 - i]]

\* get_recent_messages: the possible results of the query, reversed and
\* projected on role and content
get_recent_messages(session_id, limit) ==
    { LET fetched == SubSeq(o, 1, Min(limit, Len(o)))
          rev == Reverse(fetched)
      IN  [i \in 1..Len(rev) |->
              [role |-> messages[rev[i]].role, content |-> messages[rev[i]].content]]
      : o \in DescOrders(SessionRowIds(session_id)) }

----------------------------------------------------------------------------
(* LLMHandler *)

\* limit=20 of _get_conversation_context
HistoryWindow == 20

SystemPrompt == "You are Hash"

\* self._get_available_tools(): the catalog handed to the first call
AvailableTools == "tools"

\* tools=None, the default of generate_response
NoTools == "None"

\* traceback.format_exc() of the exception being handled
format_exc(m) == "Traceback (most recent call last): Exception: " \o m

\* the string the except clause of chat builds
ChatErrorMsg(m, show_debug) ==
    "LLM Error: " \o m \o
    (IF show_debug THEN "\nDebug info: " \o format_exc(m) ELSE "")

\* mutant: chat without its except clause, the exception leaves chat
ChatExcept_Propagates(m) ==
    /\ exception' = m
    /\ ret' = ret
    /\ raised' = m
    /\ pc' = "done"

\* except Exception as e: ... return error_msg
\* (config.show_debug is read here only: its value is an input of this step)
ChatExcept(m) ==
    /\ exception' = m
    /\ \E show_debug \in BOOLEAN : ret' = ChatErrorMsg(m, show_debug)
    /\ raised' = NoValue
    /\ pc' = "done"

\* _get_conversation_context: the possible contexts
get_conversation_context ==
    IF config.history_enabled /\ current_session_id # 0
    THEN { <<[role |-> "system", content |-> SystemPrompt]>> \o h :
             h \in get_recent_messages(current_session_id, HistoryWindow) }
    ELSE { <<[role |-> "system", content |-> SystemPrompt]>> }

\* tools registry of get_tool_executor
ToolRegistry ==
    {"execute_shell_command", "read_file", "write_file", "list_directory",
     "web_search", "analyze_code"}

\* a lookup that hands back an executor for any name
get_tool_executor_Any(tool_name) == tool_name

\* get_tool_executor: tools.get(tool_name), NoValue is None
get_tool_executor(tool_name) ==
    IF tool_name \in ToolRegistry THEN tool_name ELSE NoValue

AttributeErrorMsg == "'NoneType' object has no attribute 'execute'"

DeclineNotice == "User declined to execute this tool call."

ToolResult(call_id, output) == [tool_call_id |-> call_id, output |-> output]

Event(ev, i) == [ev |-> ev, i |-> i]

\* mutant: the loop stops after its first call
AfterToolCall_Break == "followup"

\* where the for loop of _handle_tool_calls goes after the call at idx
AfterToolCall ==
    IF idx + 1 > Len(response.tool_calls) THEN "followup" ELSE "tool_confirm"

GenerateCall(msgs, tools) ==
    [provider |-> "self.provider", messages |-> msgs, tools |-> tools]

\* mutant: the follow-up call offers the tools again
FollowUpTools_Catalog == AvailableTools

\* the tools argument of the follow-up call: omitted
FollowUpTools == NoTools

\* mutant: the first response is returned instead of the follow-up
handle_tool_calls_result_First(first_response, follow_up_response) == first_response

\* return follow_up_response
handle_tool_calls_result(first_response, follow_up_response) == follow_up_response

\* mutant: no continue, a declined call falls through to its execution
AfterDecline_FallThrough == [pc |-> "tool_execute", idx |-> idx]

\* continue, after the decline result is appended
AfterDecline == [pc |-> AfterToolCall, idx |-> idx + 1]

\* the assistant message carrying only the first tool call of the response
tool_call_messages_FirstOnly ==
    << [role |-> "assistant", content |-> response.content,
        tool_calls |-> [i \in 1..1 |->
            [id |-> response.tool_calls[i].call_id,
             type |-> "function",
             function |-> [name |-> response.tool_calls[i].name,
                           arguments |-> response.tool_calls[i].arguments]]]] >>

\* tool_call_messages of _handle_tool_calls
tool_call_messages ==
    << [role |-> "assistant", content |-> response.content,
        tool_calls |-> [i \in 1..Len(response.tool_calls) |->
            [id |-> response.tool_calls[i].call_id,
             type |-> "function",
             function |-> [name |-> response.tool_calls[i].name,
                           arguments |-> response.tool_calls[i].arguments]]]] >>

\* tool_result_messages of _handle_tool_calls
tool_result_messages ==
    [i \in 1..Len(tool_results) |->
        [role |-> "tool", content |-> tool_results[i].output,
         tool_call_id |-> tool_results[i].tool_call_id]]

messages_with_tools == context_messages \o tool_call_messages \o tool_result_messages

----------------------------------------------------------------------------
(* LLMHandler.chat, one action per step of the coroutine *)

turnLocals == <<message, context_messages, response, tool_results, idx,
                generate_calls, responses, events>>
retVars == <<ret, raised, exception>>
historyVars == <<sessions, messages, now>>

\* the caller awaits handler.chat(message)
ChatBegin ==
    /\ pc = "idle"
    /\ turns < MaxTurns
    /\ \E m \in UserMessages : message' = m
    /\ turns' = turns + 1
    /\ pc' = "start_session"
    /\ UNCHANGED <<config, current_session_id, historyVars, context_messages,
                   response, tool_results, idx, generate_calls, responses,
                   events, retVars>>
    /\ UNCHANGED nonChatVars

\* if self.history and not self.current_session_id: start_session()
StartSession ==
    /\ pc = "start_session"
    /\ IF config.history_enabled /\ current_session_id = 0
       THEN \/ /\ current_session_id' = start_session_id
               /\ \E t \in CURRENT_TIMESTAMP :
                     sessions' = start_session_rows(t) /\ now' = t
               /\ pc' = "add_user"
               /\ UNCHANGED retVars
            \/ /\ \E m \in ErrMsgs : ChatExcept(m)
               /\ UNCHANGED <<current_session_id, sessions, now>>
       ELSE /\ pc' = "add_user"
            /\ UNCHANGED <<current_session_id, sessions, now, retVars>>
    /\ UNCHANGED <<config, messages, turns, turnLocals>>
    /\ UNCHANGED nonChatVars

\* if self.history: add_message(session, "user", message)
AddUserMessage ==
    /\ pc = "add_user"
    /\ IF config.history_enabled
       THEN \/ /\ \E t \in CURRENT_TIMESTAMP :
                     /\ messages' = add_message_rows(current_session_id, "user", message, t)
                     /\ sessions' = end_session_rows(current_session_id, t)
                     /\ now' = t
               /\ pc' = "context"
               /\ UNCHANGED retVars
            \/ /\ \E m \in ErrMsgs : ChatExcept(m)
               /\ UNCHANGED historyVars
       ELSE /\ pc' = "context"
            /\ UNCHANGED <<historyVars, retVars>>
    /\ UNCHANGED <<config, current_session_id, turns, turnLocals>>
    /\ UNCHANGED nonChatVars

\* context_messages = self._get_conversation_context()
GetContext ==
    /\ pc = "context"
    /\ \/ /\ \E c \in get_conversation_context : context_messages' = c
          /\ pc' = "generate"
          /\ UNCHANGED retVars
       \/ /\ config.history_enabled
          /\ \E m \in ErrMsgs : ChatExcept(m)
          /\ UNCHANGED context_messages
    /\ UNCHANGED <<config, current_session_id, historyVars, turns, message,
                   response, tool_results, idx, generate_calls, responses, events>>
    /\ UNCHANGED nonChatVars

\* response = await self.provider.generate_response(messages=..., tools=...)
Generate ==
    /\ pc = "generate"
    /\ generate_calls' = Append(generate_calls, GenerateCall(context_messages, AvailableTools))
    /\ events' = Append(events, Event("generate", 1))
    /\ \/ /\ \E c \in Contents, tcs \in ToolCallLists :
                /\ response' = LLMResponse(c, tcs)
                /\ responses' = Append(responses, LLMResponse(c, tcs))
                /\ IF has_tool_calls(LLMResponse(c, tcs))
                   THEN pc' = "tool_confirm" /\ idx' = 1
                   ELSE pc' = "add_assistant" /\ idx' = idx
          /\ UNCHANGED retVars
       \/ /\ \E m \in ErrMsgs : ChatExcept(m)
          /\ UNCHANGED <<response, responses, idx>>
    /\ UNCHANGED <<config, current_session_id, historyVars, turns, message,
                   context_messages, tool_results>>
    /\ UNCHANGED nonChatVars

\* for tool_call in response.tool_calls: if self.config.require_confirmation: ...
ToolConfirm ==
    /\ pc = "tool_confirm"
    /\ IF config.require_confirmation
       THEN \/ \* Confirm.ask returned True
               /\ events' = Append(events, Event("confirm", idx))
               /\ pc' = "tool_execute"
               /\ UNCHANGED <<tool_results, idx, retVars>>
            \/ \* Confirm.ask returned False
               /\ events' = events \o <<Event("confirm", idx), Event("decline", idx),
                                         Event("result", idx)>>
               /\ tool_results' = Append(tool_results,
                      ToolResult(response.tool_calls[idx].call_id, DeclineNotice))
               /\ idx' = AfterDecline.idx
               /\ pc' = AfterDecline.pc
               /\ UNCHANGED retVars
            \/ \* printing the request or reading the answer raised
               /\ events' = Append(events, Event("confirm", idx))
               /\ \E m \in ErrMsgs : ChatExcept(m)
               /\ UNCHANGED <<tool_results, idx>>
       ELSE /\ pc' = "tool_execute"
            /\ UNCHANGED <<events, tool_results, idx, retVars>>
    /\ UNCHANGED <<config, current_session_id, historyVars, turns, message,
                   context_messages, response, generate_calls, responses>>
    /\ UNCHANGED nonChatVars

\* executor = get_tool_executor(tool_call.name); await executor.execute(...)
ToolExecute ==
    /\ pc = "tool_execute"
    /\ IF get_tool_executor(response.tool_calls[idx].name) = NoValue
       THEN \* None.execute raises AttributeError inside the try
            /\ events' = Append(events, Event("result", idx))
            /\ tool_results' = Append(tool_results,
                   ToolResult(response.tool_calls[idx].call_id,
                              "Error executing tool: " \o AttributeErrorMsg))
            /\ idx' = idx + 1
            /\ pc' = AfterToolCall
       ELSE /\ events' = Append(events, Event("execute", idx))
            /\ pc' = "tool_await"
            /\ UNCHANGED <<tool_results, idx>>
    /\ UNCHANGED <<config, current_session_id, historyVars, turns, message,
                   context_messages, response, generate_calls, responses, retVars>>
    /\ UNCHANGED nonChatVars

\* the awaited execute returns or raises; either way a result is appended
ToolReturn ==
    /\ pc = "tool_await"
    /\ \E out \in ToolOutputs \cup {"Error executing tool: " \o m : m \in ToolErrMsgs} :
          tool_results' = Append(tool_results,
              ToolResult(response.tool_calls[idx].call_id, out))
    /\ events' = Append(events, Event("result", idx))
    /\ idx' = idx + 1
    /\ pc' = AfterToolCall
    /\ UNCHANGED <<config, current_session_id, historyVars, turns, message,
                   context_messages, response, generate_calls, responses, retVars>>
    /\ UNCHANGED nonChatVars

\* follow_up_response = await self.provider.generate_response(messages_with_tools)
FollowUp ==
    /\ pc = "followup"
    /\ \/ \* json.dumps(tc.arguments) raised while building the messages
          /\ \E m \in ErrMsgs : ChatExcept(m)
          /\ UNCHANGED <<response, generate_calls, responses, events>>
       \/ /\ generate_calls' = Append(generate_calls,
                                       GenerateCall(messages_with_tools, FollowUpTools))
          /\ events' = Append(events, Event("generate", 2))
          /\ \/ /\ \E c \in Contents, tcs \in FollowUpToolCallLists :
                      /\ responses' = Append(responses, LLMResponse(c, tcs))
                      /\ response' = handle_tool_calls_result(response, LLMResponse(c, tcs))
                /\ pc' = "add_assistant"
                /\ UNCHANGED retVars
             \/ /\ \E m \in ErrMsgs : ChatExcept(m)
                /\ UNCHANGED <<response, responses>>
    /\ UNCHANGED <<config, current_session_id, historyVars, turns, message,
                   context_messages, tool_results, idx>>
    /\ UNCHANGED nonChatVars

\* if self.history: add_message(session, "assistant", response.content);
\* return response.content
AddAssistantMessage ==
    /\ pc = "add_assistant"
    /\ IF config.history_enabled
       THEN \/ /\ \E t \in CURRENT_TIMESTAMP :
                     /\ messages' = add_message_rows(current_session_id, "assistant",
                                                      response.content, t)
                     /\ sessions' = end_session_rows(current_session_id, t)
                     /\ now' = t
               /\ ret' = response.content
               /\ pc' = "done"
               /\ UNCHANGED <<raised, exception>>
            \/ /\ \E m \in ErrMsgs : ChatExcept(m)
               /\ UNCHANGED historyVars
       ELSE /\ ret' = response.content
            /\ pc' = "done"
            /\ UNCHANGED <<historyVars, raised, exception>>
    /\ UNCHANGED <<config, current_session_id, turns, turnLocals>>
    /\ UNCHANGED nonChatVars

\* the caller has the returned string; the frame of chat is gone
ChatEnd ==
    /\ pc = "done"
    /\ pc' = "idle"
    /\ message' = NoValue
    /\ context_messages' = <<>>
    /\ response' = NoResponse
    /\ tool_results' = <<>>
    /\ idx' = 0
    /\ ret' = NoValue
    /\ raised' = NoValue
    /\ exception' = NoValue
    /\ generate_calls' = <<>>
    /\ responses' = <<>>
    /\ events' = <<>>
    /\ UNCHANGED <<config, current_session_id, historyVars, turns>>
    /\ UNCHANGED nonChatVars

\* LLMHandler.clear_session, called between turns
ClearSession ==
    /\ pc = "idle"
    /\ current_session_id # 0
    /\ \E t \in CURRENT_TIMESTAMP :
          /\ sessions' = end_session_rows(current_session_id, t)
          /\ now' = t
    /\ current_session_id' = 0
    /\ UNCHANGED <<config, messages, pc, retVars, turns, turnLocals>>
    /\ UNCHANGED nonChatVars

\* a handler right after construction, no chat call running
ChatIdle ==
    /\ current_session_id = 0
    /\ sessions = <<>>
    /\ messages = <<>>
    /\ now = 0
    /\ pc = "idle"
    /\ message = NoValue
    /\ context_messages = <<>>
    /\ response = NoResponse
    /\ tool_results = <<>>
    /\ idx = 0
    /\ ret = NoValue
    /\ raised = NoValue
    /\ exception = NoValue
    /\ turns = 0
    /\ generate_calls = <<>>
    /\ responses = <<>>
    /\ events = <<>>

NoProvider == [name |-> NoValue, model |-> NoValue, streaming |-> FALSE]

NoArguments == [messages |-> <<>>, tools |-> <<>>, stream_handler |-> FALSE]

\* get_recent_messages not called
NoCall == [session_id |-> 0, limit |-> 0, rows |-> 0]

QueryIdle ==
    /\ recent_call = NoCall
    /\ recent = <<>>

\* no generate_response call running outside the orchestrator
AdapterIdle ==
    /\ provider = NoProvider
    /\ gen_arguments = NoArguments
    /\ request = PyNone
    /\ vendor_response = PyNone
    /\ streamed_content = <<>>
    /\ sink = <<>>
    /\ llm_response = NoResponse
    /\ gen_exception = PyNone
    /\ gen_raised = PyNone
    /\ received = <<>>
    /\ gen_pc = "idle"
    /\ gen_calls = 0
    /\ gen_history = <<>>

\* no tool call running outside the orchestrator
ToolIdle ==
    /\ tool_arguments = <<>>
    /\ tool_pc = "idle"
    /\ tool_result = NoValue
    /\ tool_raised = NoValue
    /\ spawned = <<>>
    /\ filesystem = <<>>
    /\ opened = <<>>
    /\ fs_calls = 0
    /\ tool_call_name = NoValue

ChatInit ==
    /\ config \in [history_enabled : BOOLEAN, require_confirmation : BOOLEAN]
    /\ ChatIdle
    /\ QueryIdle
    /\ ToolIdle
    /\ AdapterIdle

ChatNext ==
    \/ ChatBegin
    \/ StartSession
    \/ AddUserMessage
    \/ GetContext
    \/ Generate
    \/ ToolConfirm
    \/ ToolExecute
    \/ ToolReturn
    \/ FollowUp
    \/ AddAssistantMessage
    \/ ChatEnd
    \/ ClearSession

SpecChat == ChatInit /\ [][ChatNext]_vars

\* chat under a scheduler that runs the coroutine on: every await of a turn
\* (the provider, the prompt, the tool, the database) returns or raises, and
\* the statement after it is executed
SpecChatFair ==
    /\ ChatInit
    /\ [][ChatNext]_vars
    /\ WF_vars(StartSession \/ AddUserMessage \/ GetContext \/ Generate \/ ToolConfirm
                \/ ToolExecute \/ ToolReturn \/ FollowUp \/ AddAssistantMessage)

----------------------------------------------------------------------------
(* Properties of LLMHandler.chat *)

\* chat is at one of its return statements
ChatReturned == pc = "done"

\* the first response of the turn and its tool calls
FirstResponse == responses[1]
FirstToolCalls == FirstResponse.tool_calls

EventsOf(ev) == {p \in DOMAIN events : events[p].ev = ev}

IsResult(e) == e.ev = "result"
IsExecute(e) == e.ev = "execute"

\* the last two rows of the messages table
LastRow == messages[Len(messages)]
UserRow == messages[Len(messages) - 1]

\* C1: whichever step of chat raises, chat returns a string and nothing
\* reaches the caller; when a step raised with message m the string starts
\* with "LLM Error: " and contains m.
C1_ChatNeverRaises ==
    /\ raised = NoValue
    /\ ChatReturned =>
          /\ ret # NoValue
          /\ exception # NoValue =>
                /\ StartsWith(ret, "LLM Error: ")
                /\ Contains(ret, exception)

\* a turn that failed after its tool phase, with debug output on
C1_Witness ==
    /\ ChatReturned
    /\ exception # NoValue
    /\ Len(generate_calls) = 2
    /\ Contains(ret, "Debug info: ")
    /\ config.history_enabled

\* C2: in a turn where nothing raises, the returned string is the content of
\* the follow-up response when the first response has tool calls, and the
\* content of the first response otherwise; that string is the one stored as
\* the assistant message.
C2_ReturnsFinalContent ==
    (ChatReturned /\ exception = NoValue) =>
        /\ ret = IF has_tool_calls(FirstResponse)
                 THEN responses[2].content ELSE FirstResponse.content
        /\ config.history_enabled =>
              /\ Len(messages) >= 2
              /\ LastRow.role = "assistant"
              /\ LastRow.content = ret
              /\ UserRow.role = "user"
              /\ UserRow.content = message
              /\ LastRow.session_id = current_session_id
              /\ UserRow.session_id = current_session_id

\* a turn with tool calls whose two responses differ in content
C2_Witness ==
    /\ ChatReturned
    /\ exception = NoValue
    /\ config.history_enabled
    /\ current_session_id # 0
    /\ Len(responses) = 2
    /\ responses[1].content # responses[2].content
    /\ ret = "alpha"

\* C3: generate_response is called once in a turn without tool calls and
\* twice in a turn with tool calls, never more; the second call goes to the
\* same provider without tools, and nothing is executed after it.
C3_AtMostTwoGenerateCalls ==
    /\ Len(generate_calls) <= 2
    /\ (ChatReturned /\ exception = NoValue) =>
          Len(generate_calls) = IF has_tool_calls(FirstResponse) THEN 2 ELSE 1
    /\ Len(generate_calls) = 2 =>
          /\ has_tool_calls(FirstResponse)
          /\ generate_calls[2].provider = generate_calls[1].provider
          /\ generate_calls[2].tools = NoTools
          /\ events[Len(events)] = Event("generate", 2)
          /\ Cardinality(EventsOf("generate")) = 2
          /\ \A p \in EventsOf("execute") : events[p].i \in DOMAIN FirstToolCalls

\* a finished turn whose follow-up response asks for a tool again
C3_Witness ==
    /\ ChatReturned
    /\ exception = NoValue
    /\ Len(responses) = 2
    /\ has_tool_calls(responses[2])
    /\ EventsOf("execute") # {}

\* C4: the tool calls of the first response are resolved one at a time in
\* emission order: call i+1 is not confirmed or executed before call i has
\* its result, each call is executed at most once and has exactly one
\* result, and the follow-up call begins after every call has a result.
C4_ToolCallsInOrder ==
    LET results == SelectSeq(events, IsResult)
        executions == SelectSeq(events, IsExecute)
    IN
    \* the results are those of calls 1, 2, ... in this order, one each
    /\ \A k \in DOMAIN results : results[k].i = k
    /\ Len(tool_results) = Len(results)
    /\ \A i \in DOMAIN tool_results :
          tool_results[i].tool_call_id = FirstToolCalls[i].call_id
    \* no call is executed twice
    /\ \A j, k \in DOMAIN executions : j < k => executions[j].i < executions[k].i
    \* call i is confirmed and executed after the result of call i-1 and
    \* before its own
    /\ \A p \in DOMAIN events :
          events[p].ev \in {"confirm", "execute"} =>
              Len(SelectSeq(SubSeq(events, 1, p), IsResult)) = events[p].i - 1
    \* the follow-up call comes after the result of every call
    /\ \A p \in DOMAIN events :
          events[p] = Event("generate", 2) =>
              /\ Len(SelectSeq(SubSeq(events, 1, p), IsResult)) = Len(FirstToolCalls)
              /\ Len(tool_results) = Len(FirstToolCalls)

\* a follow-up call made after two tool calls were executed
C4_Witness ==
    /\ Len(generate_calls) = 2
    /\ Len(FirstToolCalls) = 2
    /\ Cardinality(EventsOf("execute")) = 2

\* C5: a tool call the user declines is never executed; a result with its
\* call id and the decline notice takes its place; the loop goes on with the
\* next call and the follow-up call is still issued.
C5_DeclineSkipsExecution ==
    \A p \in EventsOf("decline") :
        LET i == events[p].i IN
        /\ config.require_confirmation
        /\ \A q \in EventsOf("execute") : events[q].i # i
        /\ i \in DOMAIN tool_results
        /\ tool_results[i] = ToolResult(FirstToolCalls[i].call_id, DeclineNotice)
        /\ (p + 1 = Len(events) /\ exception = NoValue) =>
              /\ ret = NoValue
              /\ idx = i + 1
              /\ pc = IF i < Len(FirstToolCalls) THEN "tool_confirm" ELSE "followup"
        /\ (ChatReturned /\ exception = NoValue) =>
              /\ Len(generate_calls) = 2
              /\ Len(tool_results) = Len(FirstToolCalls)
              /\ generate_calls[2].messages[Len(context_messages) + 1 + i] =
                    [role |-> "tool", content |-> DeclineNotice,
                     tool_call_id |-> FirstToolCalls[i].call_id]

\* the first call was declined, the second executed, the turn finished
C5_Witness ==
    /\ ChatReturned
    /\ exception = NoValue
    /\ Event("decline", 1) \in {events[p] : p \in DOMAIN events}
    /\ Event("execute", 2) \in {events[p] : p \in DOMAIN events}
    /\ FirstToolCalls[1].name = "web_search"

----------------------------------------------------------------------------
(* Python string operations used by the tools *)

Char(s, i) == SubSeq(s, i, i)

Whitespace == {" ", "\t", "\n", "\r", "\f"}

\* the backquote character, taken out of a two-character literal
Backtick == SubSeq("`'", 1, 1)

UpperCase == "ABCDEFGHIJKLMNOPQRSTUVWXYZ"
LowerCase == "abcdefghijklmnopqrstuvwxyz"

LowerChar(c) ==
    IF \E i \in 1..Len(UpperCase) : Char(UpperCase, i) = c
    THEN Char(LowerCase, CHOOSE i \in 1..Len(UpperCase) : Char(UpperCase, i) = c)
    ELSE c

\* s.lower()
RECURSIVE Lower(_)
Lower(s) ==
    IF s = "" THEN "" ELSE LowerChar(Char(s, 1)) \o Lower(SubSeq(s, 2, Len(s)))

RECURSIVE LStrip(_)
LStrip(s) ==
    IF s # "" /\ Char(s, 1) \in Whitespace THEN LStrip(SubSeq(s, 2, Len(s))) ELSE s

RECURSIVE RStrip(_)
RStrip(s) ==
    IF s # "" /\ Char(s, Len(s)) \in Whitespace
    THEN RStrip(SubSeq(s, 1, Len(s) - 1))
    ELSE s

\* s.strip()
Strip(s) == RStrip(LStrip(s))

\* str(n) for the small integers the tools print
Digits == "0123456789"

RECURSIVE IntToStr(_)
IntToStr(n) ==
    IF n < 0 THEN "-" \o IntToStr(0 - n)
    ELSE IF n < 10 THEN Char(Digits, n + 1)
    ELSE IntToStr(n \div 10) \o Char(Digits, (n % 10) + 1)

----------------------------------------------------------------------------
(* shlex.split(s): POSIX mode, whitespace_split, no comment characters *)

Quotes == {"'", "\""}
Escape == "\\"

ShlexOk(tokens) == [tokens |-> tokens, error |-> NoValue]
ShlexError(m) == [tokens |-> <<>>, error |-> m]

\* a finished token is returned when it is non-empty or was quoted
ShlexEmit(tokens, token, quoted) ==
    IF token # "" \/ quoted THEN Append(tokens, token) ELSE tokens

\* shlex.read_token run to the end of the input: state is " " between
\* tokens, "a" inside a word, a quote character inside quotes, the escape
\* character after a backslash
RECURSIVE shlex_scan(_, _, _, _, _, _, _)
shlex_scan(s, i, state, escapedstate, token, quoted, tokens) ==
    IF i > Len(s)
    THEN IF state \in Quotes THEN ShlexError("No closing quotation")
         ELSE IF state = Escape THEN ShlexError("No escaped character")
         ELSE ShlexOk(ShlexEmit(tokens, token, quoted))
    ELSE LET c == Char(s, i) IN
         IF state = " "
         THEN IF c \in Whitespace
              THEN shlex_scan(s, i + 1, " ", escapedstate, token, quoted, tokens)
              ELSE IF c = Escape
              THEN shlex_scan(s, i + 1, Escape, "a", token, quoted, tokens)
              ELSE IF c \in Quotes
              THEN shlex_scan(s, i + 1, c, escapedstate, token, quoted, tokens)
              ELSE shlex_scan(s, i + 1, "a", escapedstate, c, quoted, tokens)
         ELSE IF state \in Quotes
         THEN IF c = state
              THEN shlex_scan(s, i + 1, "a", escapedstate, token, TRUE, tokens)
              ELSE IF c = Escape /\ state = "\""
              THEN shlex_scan(s, i + 1, Escape, state, token, TRUE, tokens)
              ELSE shlex_scan(s, i + 1, state, escapedstate, token \o c, TRUE, tokens)
         ELSE IF state = Escape
         THEN shlex_scan(s, i + 1, escapedstate, escapedstate,
                         IF escapedstate \in Quotes /\ c # Escape /\ c # escapedstate
                         THEN token \o Escape \o c
                         ELSE token \o c,
                         quoted, tokens)
         ELSE \* state = "a"
              IF c \in Whitespace
              THEN shlex_scan(s, i + 1, " ", escapedstate, "", FALSE,
                              ShlexEmit(tokens, token, quoted))
              ELSE IF c \in Quotes
              THEN shlex_scan(s, i + 1, c, escapedstate, token, quoted, tokens)
              ELSE IF c = Escape
              THEN shlex_scan(s, i + 1, Escape, "a", token, quoted, tokens)
              ELSE shlex_scan(s, i + 1, "a", escapedstate, token \o c, quoted, tokens)

shlex_split(s) == shlex_scan(s, 1, " ", " ", "", FALSE, <<>>)

----------------------------------------------------------------------------
(* ShellTool: the security gate *)

\* bool(x)
Truthy(x) ==
    IF x.type = "bool" THEN x.v
    ELSE IF x.type = "str" THEN x.v # ""
    ELSE Len(x.v) > 0

\* arguments.get(key, "")
ArgGet(args, key) == IF key \in DOMAIN args THEN args[key] ELSE PyStr("")

\* hasattr(cfg, name): reading an attribute the object lacks raises
\* AttributeError
HasAttr(cfg, name) == name \in DOMAIN cfg

AttributeErrorOf(type, name) ==
    "'" \o type \o "' object has no attribute '" \o name \o "'"

\* the first index of a sequence that satisfies a test, 0 if none
FirstOf(hits) == IF hits = {} THEN 0 ELSE CHOOSE i \in hits : \A j \in hits : i <= j

\* ShellTool._split_command_chain: split on unquoted | and ;
RECURSIVE split_command_chain_scan(_, _, _, _, _, _, _)
split_command_chain_scan(command, i, current, in_single, in_double, escaped, segments) ==
    LET Flush == IF Strip(current) # "" THEN Append(segments, Strip(current)) ELSE segments
    IN
    IF i > Len(command) THEN Flush
    ELSE LET ch == Char(command, i) IN
         IF escaped
         THEN split_command_chain_scan(command, i + 1, current \o ch, in_single, in_double,
                                       FALSE, segments)
         ELSE IF ch = "\\" /\ ~in_single
         THEN split_command_chain_scan(command, i + 1, current \o ch, in_single, in_double,
                                       TRUE, segments)
         ELSE IF ch = "'" /\ ~in_double
         THEN split_command_chain_scan(command, i + 1, current \o ch, ~in_single, in_double,
                                       FALSE, segments)
         ELSE IF ch = "\"" /\ ~in_single
         THEN split_command_chain_scan(command, i + 1, current \o ch, in_single, ~in_double,
                                       FALSE, segments)
         ELSE IF ~in_single /\ ~in_double /\ ch \in {"|", ";"}
         THEN split_command_chain_scan(command, i + 1, "", in_single, in_double,
                                       FALSE, Flush)
         ELSE split_command_chain_scan(command, i + 1, current \o ch, in_single, in_double,
                                       FALSE, segments)

split_command_chain(command) ==
    split_command_chain_scan(command, 1, "", FALSE, FALSE, FALSE, <<>>)

\* ShellTool._extract_base_commands: the first token of every segment that
\* tokenizes to something
RECURSIVE base_commands_of(_)
base_commands_of(segments) ==
    IF segments = <<>> THEN <<>>
    ELSE LET parts == shlex_split(Head(segments)) IN
         (IF parts.error = NoValue /\ parts.tokens # <<>>
          THEN <<parts.tokens[1]>>
          ELSE <<>>) \o base_commands_of(Tail(segments))

extract_base_commands(command) == base_commands_of(split_command_chain(command))

FixedDangerousPatterns ==
    <<"$(", Backtick, "&&", "||", "rm -rf /", "sudo rm", "chmod 777", "curl | sh", "wget | sh">>

\* the patterns without the extension by ";" and "|"
dangerous_patterns_Fixed(cfg) == FixedDangerousPatterns

\* dangerous_patterns of _validate_command_security
dangerous_patterns(cfg) ==
    IF ~cfg.allow_shell_operators
    THEN FixedDangerousPatterns \o <<";", "|">>
    ELSE FixedDangerousPatterns

Ret(s) == [ret |-> s, raised |-> NoValue]
Raise(m) == [ret |-> NoValue, raised |-> m]

\* ShellTool._validate_command_security: "" when the command may run
validate_command_security(command, cfg) ==
    IF command.type # "str" THEN Raise(AttributeErrorOf(command.type, "lower"))
    ELSE
    LET command_lower == Lower(command.v)
        blocked == FirstOf({i \in DOMAIN cfg.blocked_commands :
                                Contains(command_lower, Lower(cfg.blocked_commands[i]))})
        allowed_commands == cfg.allowed_commands.v
        base_commands == extract_base_commands(command.v)
        not_allowed == IF Truthy(cfg.allowed_commands)
                       THEN FirstOf({i \in DOMAIN base_commands :
                                \A j \in DOMAIN allowed_commands :
                                    allowed_commands[j] # base_commands[i]})
                       ELSE 0
        pattern == FirstOf({i \in DOMAIN dangerous_patterns(cfg) :
                                Contains(command_lower, dangerous_patterns(cfg)[i])})
    IN
    IF blocked # 0
    THEN Ret("Blocked command detected: " \o cfg.blocked_commands[blocked])
    ELSE IF not_allowed # 0
    THEN Ret("Command not in allowed list: " \o base_commands[not_allowed])
    ELSE IF ~HasAttr(cfg, "allow_shell_operators")
    THEN Raise(AttributeErrorOf("HashConfig", "allow_shell_operators"))
    ELSE IF pattern # 0
    THEN Ret("Potentially dangerous command pattern detected: "
             \o dangerous_patterns(cfg)[pattern])
    ELSE Ret("")

\* the mutation: every command goes through the shell
should_use_shell_Always(command, cfg) == TRUE

\* ShellTool._should_use_shell
should_use_shell(command, cfg) ==
    IF ~cfg.allow_shell_operators THEN FALSE
    ELSE IF command.type # "str" THEN FALSE
    ELSE Contains(command.v, "|") \/ Contains(command.v, ";")

----------------------------------------------------------------------------
(* ShellTool.execute *)

DefaultCommandTimeout == 30

\* what subprocess.run does once it has been called
Outcome(kind, stdout, stderr, returncode, msg) ==
    [kind |-> kind, stdout |-> stdout, stderr |-> stderr,
     returncode |-> returncode, msg |-> msg]

ProcessOutcomes ==
    {Outcome("completed", out, err, rc, "") :
        out \in {"", "out\n"}, err \in {"", "err\n"}, rc \in {0, 1}}
    \cup {Outcome("TimeoutExpired", "", "", 0, ""),
          Outcome("FileNotFoundError", "", "", 0, ""),
          Outcome("Exception", "", "", 0, "[Errno 13] Permission denied")}

\* the "Format output" block of execute
format_output(stdout, stderr, returncode) ==
    LET o1 == stdout
        o2 == IF stderr # ""
              THEN (IF o1 # "" THEN o1 \o "\n\n" ELSE o1) \o "stderr:\n" \o stderr
              ELSE o1
        o3 == IF returncode # 0
              THEN (IF o2 # "" THEN o2 \o "\n\n" ELSE o2)
                   \o "Exit code: " \o IntToStr(returncode)
              ELSE o2
        output == IF o3 = ""
                  THEN "Command completed successfully (exit code: "
                       \o IntToStr(returncode) \o ")"
                  ELSE o3
    IN Strip(output)

\* one subprocess.run call: shell=True with the command string, or
\* shell=False with the argv list
RunCall(shell, args) == [shell |-> shell, args |-> args]

ToolDone(r, e, calls) == [ret |-> r, raised |-> e, spawned |-> calls]

\* subprocess.run(...) and the code of execute after it
run_and_format(command, cfg, shell, args, outcome) ==
    LET call == <<RunCall(shell, args)>>
        cmd_preview == IF command.type = "str"
                       THEN shlex_split(command.v).tokens
                       ELSE command.v
    IN
    IF ~shell /\ args = <<>>
    THEN ToolDone("Error executing command: list index out of range", NoValue, call)
    ELSE IF outcome.kind = "completed"
    THEN ToolDone(format_output(outcome.stdout, outcome.stderr, outcome.returncode),
                  NoValue, call)
    ELSE IF outcome.kind = "TimeoutExpired"
    THEN ToolDone("Command timed out after " \o IntToStr(cfg.command_timeout)
                  \o " seconds", NoValue, call)
    ELSE IF outcome.kind = "FileNotFoundError"
    THEN ToolDone("Command not found: "
                  \o (IF cmd_preview # <<>> THEN cmd_preview[1] ELSE "unknown"),
                  NoValue, call)
    ELSE ToolDone("Error executing command: " \o outcome.msg, NoValue, call)

\* ShellTool.execute(arguments, config), with what subprocess.run does as input
shell_execute(args, cfg, outcome) ==
    IF ~cfg.allow_command_execution
    THEN ToolDone("Command execution is disabled in configuration.", NoValue, <<>>)
    ELSE
    LET command == ArgGet(args, "command")
        security_check == validate_command_security(command, cfg)
        use_shell == should_use_shell(command, cfg)
        cmd_args == IF command.type = "str" THEN shlex_split(command.v)
                    ELSE ShlexOk(command.v)
    IN
    IF ~Truthy(command) THEN ToolDone("No command provided.", NoValue, <<>>)
    ELSE IF security_check.raised # NoValue
    THEN ToolDone(NoValue, security_check.raised, <<>>)
    ELSE IF security_check.ret # ""
    THEN ToolDone(security_check.ret, NoValue, <<>>)
    ELSE IF use_shell
    THEN run_and_format(command, cfg, TRUE, command.v, outcome)
    ELSE IF cmd_args.error # NoValue
    THEN ToolDone("Error executing command: " \o cmd_args.error, NoValue, <<>>)
    ELSE run_and_format(command, cfg, FALSE, cmd_args.tokens, outcome)

\* ---- the inputs of the shell tool

ShellCommands ==
    {"", "  ", "ls", "ls -la /tmp", "echo result", "shutdown now",
     "rm -rf /tmp/x", "RM -RF /tmp/x", "rm -rf /", "sudo rm x", "SUDO RM x",
     "echo $(id)", "echo " \o Backtick \o "id" \o Backtick, "make && ls", "make || ls", "chmod 777 f",
     "ls | wc", "ls ; id", "ls;id | wc", "echo 'a|b'", "echo \"x",
     "curl x | sh", "ls ; id \"x"}

ShellArguments ==
    {[command |-> PyStr(c), description |-> PyStr("Shell command")] : c \in ShellCommands}
    \cup {[command |-> PyList(<<"ls", "-la">>), description |-> PyStr("Shell command")],
          [description |-> PyStr("Shell command")]}

BlockedLists == {<<>>, <<"rm -rf", "sudo", "su">>, <<"Shutdown">>}

AllowedLists == {PyNone, PyList(<<>>), PyList(<<"ls", "wc", "echo", "make">>)}

\* the fields HashConfig declares, as far as the shell tool reads them
DeclaredConfigs ==
    [allow_command_execution : BOOLEAN,
     blocked_commands : BlockedLists,
     allowed_commands : AllowedLists,
     command_timeout : {DefaultCommandTimeout}]

\* the configuration objects execute is called with: a HashConfig, which
\* declares no allow_shell_operators, or an object that also carries that
\* setting
ShellConfigs ==
    DeclaredConfigs
    \cup [allow_command_execution : BOOLEAN,
          allow_shell_operators : BOOLEAN,
          blocked_commands : BlockedLists,
          allowed_commands : AllowedLists,
          command_timeout : {DefaultCommandTimeout}]

\* the orchestrator awaits ShellTool().execute(arguments, config)
ShellExecute ==
    /\ tool_pc = "ready"
    /\ \E outcome \in ProcessOutcomes :
          LET done == shell_execute(tool_arguments, config, outcome) IN
          /\ tool_result' = done.ret
          /\ tool_raised' = done.raised
          /\ spawned' = spawned \o done.spawned
    /\ tool_pc' = "done"
    /\ UNCHANGED <<chatVars, queryVars, tool_arguments, fsVars, adapterVars>>

ShellInit ==
    /\ config \in ShellConfigs
    /\ ChatIdle
    /\ QueryIdle
    /\ AdapterIdle
    /\ tool_arguments \in ShellArguments
    /\ tool_pc = "ready"
    /\ tool_result = NoValue
    /\ tool_raised = NoValue
    /\ spawned = <<>>
    /\ filesystem = <<>>
    /\ opened = <<>>
    /\ fs_calls = 0
    /\ tool_call_name = NoValue

ShellNext == ShellExecute

SpecShell == ShellInit /\ [][ShellNext]_vars

----------------------------------------------------------------------------
(* Properties of ShellTool.execute *)

\* execute was awaited and is over
ShellReturned == tool_pc = "done"

\* the command execute read from its arguments
ShellCommand == ArgGet(tool_arguments, "command")

HasOperator(s) == Contains(s, "|") \/ Contains(s, ";")

OperatorsAllowed ==
    HasAttr(config, "allow_shell_operators") /\ config.allow_shell_operators

\* C6: in every execution of the shell tool, subprocess.run is called with
\* shell=True only if allow_shell_operators is true, the command contains
\* "|" or ";" and the security gate returned no rejection; every other call
\* of subprocess.run gets shell=False and the tokens of the command
\* (shlex.split) as its argv.
C6_ShellOnlyForAllowedOperators ==
    ShellReturned =>
        /\ Len(spawned) <= 1
        /\ \A i \in DOMAIN spawned :
              /\ ShellCommand.type = "str"
              /\ IF spawned[i].shell
                 THEN /\ OperatorsAllowed
                      /\ HasOperator(ShellCommand.v)
                      /\ validate_command_security(ShellCommand, config) = Ret("")
                      /\ spawned[i].args = ShellCommand.v
                 ELSE /\ shlex_split(ShellCommand.v).error = NoValue
                      /\ spawned[i].args = shlex_split(ShellCommand.v).tokens

\* a pipeline ran through the shell, with the operators allowed
C6_Witness ==
    /\ ShellReturned
    /\ OperatorsAllowed
    /\ spawned = <<RunCall(TRUE, "ls | wc")>>
    /\ tool_result = "out"

\* strings by which execute refuses to run a command
IsRejection(s) ==
    \/ s = "Command execution is disabled in configuration."
    \/ StartsWith(s, "Blocked command detected: ")
    \/ StartsWith(s, "Command not in allowed list: ")
    \/ StartsWith(s, "Potentially dangerous command pattern detected: ")

\* the blocked entries the command contains, compared case-insensitively
BlockedHits ==
    {i \in DOMAIN config.blocked_commands :
        Contains(Lower(ShellCommand.v), Lower(config.blocked_commands[i]))}

DangerousSubstrings ==
    {"$(", Backtick, "&&", "||", "rm -rf /", "sudo rm", "chmod 777"}

HasDangerousSubstring == \E p \in DangerousSubstrings : Contains(ShellCommand.v, p)

\* C7: for every command that contains a configured blocked substring
\* (case-insensitively) or one of the fixed dangerous substrings, whatever
\* the allow-list and allow_shell_operators, execute returns a rejection
\* string, "Blocked command detected: <entry>" in the blocked case, and
\* never calls subprocess.run.
C7_DangerousCommandRejected ==
    (/\ ShellReturned
     /\ ShellCommand.type = "str"
     /\ BlockedHits # {} \/ HasDangerousSubstring)
    => /\ spawned = <<>>
       /\ tool_raised = NoValue
       /\ IsRejection(tool_result)
       /\ (BlockedHits # {} /\ config.allow_command_execution)
           => \E i \in BlockedHits :
                 tool_result = "Blocked command detected: " \o config.blocked_commands[i]

----------------------------------------------------------------------------
(* FileSystemTool: paths *)

\* symbolic links followed by one resolve() before it reports a loop
MaxSymlinks == 8

\* the working directory of the process
Cwd == "/tmp/w"

\* the symbolic links of the file system: link -> target
Symlinks ==
    [p \in {"/tmp/w/link", "/tmp/w/safe", "/tmp/w/loop", "/tmp/w/subl"} |->
        CASE p = "/tmp/w/link" -> "/etc/passwd"
          [] p = "/tmp/w/safe" -> "/tmp/w/notes.txt"
          [] p = "/tmp/w/loop" -> "/tmp/w/loop"
          [] p = "/tmp/w/subl" -> "/tmp/w/sub"]

\* the components of a path: "" and "." are dropped
RECURSIVE SplitPathScan(_, _, _, _)
SplitPathScan(s, i, current, parts) ==
    LET Flush == IF current = "" \/ current = "." THEN parts ELSE Append(parts, current)
    IN
    IF i > Len(s) THEN Flush
    ELSE IF Char(s, i) = "/" THEN SplitPathScan(s, i + 1, "", Flush)
    ELSE SplitPathScan(s, i + 1, current \o Char(s, i), parts)

SplitPath(s) == SplitPathScan(s, 1, "", <<>>)

RECURSIVE JoinParts(_)
JoinParts(parts) ==
    IF parts = <<>> THEN "" ELSE "/" \o Head(parts) \o JoinParts(Tail(parts))

\* str(path) of an absolute path given by its components
JoinPath(parts) == IF parts = <<>> THEN "/" ELSE JoinParts(parts)

Parent(parts) == IF parts = <<>> THEN <<>> ELSE SubSeq(parts, 1, Len(parts) - 1)

\* os.path.realpath: ".." pops, a symbolic link is replaced by its target
RECURSIVE joinrealpath(_, _, _)
joinrealpath(path, rest, fuel) ==
    IF rest = <<>> THEN [path |-> path, loop |-> NoValue]
    ELSE LET name == Head(rest)
             newpath == Append(path, name)
         IN
         IF name = ".." THEN joinrealpath(Parent(path), Tail(rest), fuel)
         ELSE IF JoinPath(newpath) \in DOMAIN Symlinks
         THEN IF fuel = 0
              THEN [path |-> path, loop |-> JoinPath(newpath \o Tail(rest))]
              ELSE joinrealpath(<<>>,
                                SplitPath(Symlinks[JoinPath(newpath)]) \o Tail(rest),
                                fuel - 1)
         ELSE joinrealpath(newpath, Tail(rest), fuel)

\* Path(file_path).resolve(): the resolved path, or the exception
resolve(file_path) ==
    IF file_path.type # "str"
    THEN Raise("expected str, bytes or os.PathLike object, not " \o file_path.type)
    ELSE LET parts == IF StartsWith(file_path.v, "/")
                      THEN SplitPath(file_path.v)
                      ELSE SplitPath(Cwd) \o SplitPath(file_path.v)
             real == joinrealpath(<<>>, parts, MaxSymlinks)
         IN IF real.loop # NoValue
            THEN Raise("Symlink loop from '" \o real.loop \o "'")
            ELSE Ret(JoinPath(real.path))

sensitive_patterns ==
    <<"/etc/passwd", "/etc/shadow", "/etc/sudoers", ".ssh/id_rsa", ".ssh/id_dsa",
      ".ssh/id_ecdsa", ".ssh/id_ed25519", ".aws/credentials", ".env", ".secret",
      "private_key", "id_rsa", "id_dsa", "id_ecdsa", "id_ed25519">>

\* the mutation: the path is compared without lower()
is_sensitive_file_CaseSensitive(path) ==
    \E i \in DOMAIN sensitive_patterns : Contains(path, sensitive_patterns[i])

\* FileSystemTool._is_sensitive_file
is_sensitive_file(path) ==
    LET path_str == Lower(path) IN
    \E i \in DOMAIN sensitive_patterns : Contains(path_str, sensitive_patterns[i])

sensitive_paths ==
    <<"/etc", "/bin", "/sbin", "/usr/bin", "/usr/sbin", "/sys", "/proc", "/dev",
      "/boot", "C:\\\\Windows", "C:\\\\Program Files", "C:\\\\System32">>

\* FileSystemTool._is_sensitive_path
is_sensitive_path(path) ==
    \E i \in DOMAIN sensitive_paths : StartsWith(path, sensitive_paths[i])

----------------------------------------------------------------------------
(* FileSystemTool: the three operations *)

max_size == 1048576

\* a node of the file system
File(content, size) == [kind |-> "file", content |-> content, size |-> size]
Dir == [kind |-> "dir", content |-> "", size |-> 0]

Exists(fs, path) == path \in DOMAIN fs
IsFile(fs, path) == Exists(fs, path) /\ fs[path].kind = "file"
IsDir(fs, path) == Exists(fs, path) /\ fs[path].kind = "dir"

\* one open() call
OpenCall(path, mode) == [path |-> path, mode |-> mode]

\* what an operation leaves behind: the returned string, the open() calls
\* it made and the file system after it
FsDone(r, calls, fs) == [ret |-> r, raised |-> NoValue, opened |-> calls, fs |-> fs]

\* what the operating system answers: "ok", or the call that fails and how
EnvOutcomes ==
    {[at |-> "none", error |-> "ok"],
     [at |-> "stat", error |-> "PermissionError"],
     [at |-> "open", error |-> "PermissionError"],
     [at |-> "open", error |-> "[Errno 5] Input/output error"]}

\* FileSystemTool._read_file
read_file(args, fs, env) ==
    LET file_path == ArgGet(args, "file_path")
        resolved == resolve(file_path)
        path == resolved.ret
    IN
    IF ~Truthy(file_path) THEN FsDone("No file path provided", <<>>, fs)
    ELSE IF resolved.raised # NoValue
    THEN FsDone("Error reading file: " \o resolved.raised, <<>>, fs)
    ELSE IF is_sensitive_file(path)
    THEN FsDone("Access to sensitive file denied: " \o path, <<>>, fs)
    ELSE IF env.at = "stat"
    THEN FsDone("Permission denied reading file: " \o path, <<>>, fs)
    ELSE IF ~Exists(fs, path)
    THEN FsDone("File does not exist: " \o path, <<>>, fs)
    ELSE IF ~IsFile(fs, path)
    THEN FsDone("Path is not a file: " \o path, <<>>, fs)
    ELSE IF fs[path].size > max_size
    THEN FsDone("File too large to read (max 1MB): " \o path, <<>>, fs)
    ELSE IF env.at = "open"
    THEN FsDone(IF env.error = "PermissionError"
                THEN "Permission denied reading file: " \o path
                ELSE "Error reading file: " \o env.error,
                <<OpenCall(path, "r")>>, fs)
    ELSE FsDone("Content of " \o path \o ":\\n\\n" \o fs[path].content,
                <<OpenCall(path, "r")>>, fs)

\* the ancestors of a path that path.parent.mkdir(parents=True) looks at,
\* outermost first
RECURSIVE Ancestors(_)
Ancestors(parts) ==
    IF parts = <<>> THEN <<>> ELSE Append(Ancestors(Parent(parts)), JoinPath(parts))

\* path.parent.mkdir(parents=True, exist_ok=True): the file system after it,
\* or the error when an ancestor is not a directory
mkdir_parents(fs, parent) ==
    LET chain == Ancestors(SplitPath(parent))
        files == {i \in DOMAIN chain : IsFile(fs, chain[i])}
        first == FirstOf(files)
        made == {chain[i] : i \in DOMAIN chain} \ DOMAIN fs
    IN
    IF first = 0
    THEN [fs |-> [p \in DOMAIN fs \cup made |-> IF p \in DOMAIN fs THEN fs[p] ELSE Dir],
          error |-> NoValue]
    ELSE IF first = Len(chain)
    THEN [fs |-> fs, error |-> "[Errno 17] File exists: '" \o parent \o "'"]
    ELSE [fs |-> fs, error |-> "[Errno 20] Not a directory: '" \o parent \o "'"]

\* FileSystemTool._write_file
write_file(args, fs, env) ==
    LET file_path == ArgGet(args, "file_path")
        content == ArgGet(args, "content")
        resolved == resolve(file_path)
        path == resolved.ret
        made == mkdir_parents(fs, JoinPath(Parent(SplitPath(path))))
    IN
    IF ~Truthy(file_path) THEN FsDone("No file path provided", <<>>, fs)
    ELSE IF resolved.raised # NoValue
    THEN FsDone("Error writing file: " \o resolved.raised, <<>>, fs)
    ELSE IF is_sensitive_path(path)
    THEN FsDone("Access to sensitive path denied: " \o path, <<>>, fs)
    ELSE IF env.at = "stat"
    THEN FsDone("Permission denied writing to file: " \o path, <<>>, fs)
    ELSE IF made.error # NoValue
    THEN FsDone("Error writing file: " \o made.error, <<>>, fs)
    ELSE IF env.at = "open"
    THEN FsDone(IF env.error = "PermissionError"
                THEN "Permission denied writing to file: " \o path
                ELSE "Error writing file: " \o env.error,
                <<OpenCall(path, "w")>>, made.fs)
    ELSE IF IsDir(made.fs, path)
    THEN FsDone("Error writing file: [Errno 21] Is a directory: '" \o path \o "'",
                <<OpenCall(path, "w")>>, made.fs)
    ELSE IF content.type # "str"
    THEN FsDone("Error writing file: write() argument must be str, not " \o content.type,
                <<OpenCall(path, "w")>>,
                [p \in DOMAIN made.fs \cup {path} |->
                    IF p = path THEN File("", 0) ELSE made.fs[p]])
    ELSE FsDone("Successfully wrote " \o IntToStr(Len(content.v))
                \o " characters to " \o path,
                <<OpenCall(path, "w")>>,
                [p \in DOMAIN made.fs \cup {path} |->
                    IF p = path THEN File(content.v, Len(content.v)) ELSE made.fs[p]])

\* ---- listing a directory

AsciiTable ==
    " !\"#$%&'()*+,-./0123456789:;<=>?@" \o UpperCase \o "[\\]^_" \o Backtick
    \o LowerCase \o "{|}~"

\* ord(c)
Ord(c) == 31 + CHOOSE i \in 1..Len(AsciiTable) : Char(AsciiTable, i) = c

\* a < b for str
RECURSIVE StrLess(_, _)
StrLess(a, b) ==
    IF b = "" THEN FALSE
    ELSE IF a = "" THEN TRUE
    ELSE IF Char(a, 1) = Char(b, 1)
    THEN StrLess(SubSeq(a, 2, Len(a)), SubSeq(b, 2, Len(b)))
    ELSE Ord(Char(a, 1)) < Ord(Char(b, 1))

\* sorted(entries), the entries being distinct
RECURSIVE Sorted(_)
Sorted(S) ==
    IF S = {} THEN <<>>
    ELSE LET m == CHOOSE x \in S : \A y \in S \ {x} : StrLess(x, y)
         IN <<m>> \o Sorted(S \ {m})

\* sep.join(lines)
RECURSIVE JoinLines(_, _)
JoinLines(lines, sep) ==
    IF lines = <<>> THEN ""
    ELSE IF Len(lines) = 1 THEN lines[1]
    ELSE lines[1] \o sep \o JoinLines(Tail(lines), sep)

\* f"{n/d:.1f}"
Fixed1(n, d) ==
    LET q == (n * 10) \div d
        r == (n * 10) % d
        t == IF 2 * r > d THEN q + 1
             ELSE IF 2 * r = d THEN q + (q % 2)
             ELSE q
    IN IntToStr(t \div 10) \o "." \o IntToStr(t % 10)

\* the size column of a listing
SizeColumn(file_size) ==
    IF file_size < 1024 THEN "(" \o IntToStr(file_size) \o "B)"
    ELSE IF file_size < 1024 * 1024 THEN "(" \o Fixed1(file_size, 1024) \o "KB)"
    ELSE "(" \o Fixed1(file_size, 1024 * 1024) \o "MB)"

\* the node a directory entry stands for, symbolic links followed
EntryNode(fs, p) ==
    LET real == resolve(PyStr(p)) IN
    IF real.raised = NoValue /\ Exists(fs, real.ret) THEN fs[real.ret]
    ELSE [kind |-> "none", content |-> "", size |-> 0]

\* entry.name
BaseName(p) == LET parts == SplitPath(p) IN parts[Len(parts)]

\* path.iterdir()
Children(fs, path) ==
    {p \in (DOMAIN fs \cup DOMAIN Symlinks) \ {"/"} :
        JoinPath(Parent(SplitPath(p))) = path}

EntryLine(fs, p) ==
    LET node == EntryNode(fs, p) IN
    (IF node.kind = "dir" THEN "DIR " ELSE "FILE") \o " " \o BaseName(p) \o " "
    \o (IF node.kind = "file" THEN SizeColumn(node.size) ELSE "")

\* FileSystemTool._list_directory
list_directory(args, fs, env) ==
    LET directory_path == IF "directory_path" \in DOMAIN args
                          THEN args["directory_path"] ELSE PyStr(".")
        show_hidden == "show_hidden" \in DOMAIN args /\ Truthy(args["show_hidden"])
        resolved == resolve(directory_path)
        path == resolved.ret
        entries == {EntryLine(fs, p) :
                       p \in {c \in Children(fs, path) :
                                 show_hidden \/ ~StartsWith(BaseName(c), ".")}}
    IN
    IF resolved.raised # NoValue
    THEN FsDone("Error listing directory: " \o resolved.raised, <<>>, fs)
    ELSE IF is_sensitive_path(path)
    THEN FsDone("Access to sensitive path denied: " \o path, <<>>, fs)
    ELSE IF env.at = "stat"
    THEN FsDone("Error listing directory: [Errno 13] Permission denied: '"
                \o path \o "'", <<>>, fs)
    ELSE IF ~Exists(fs, path)
    THEN FsDone("Directory does not exist: " \o path, <<>>, fs)
    ELSE IF ~IsDir(fs, path)
    THEN FsDone("Path is not a directory: " \o path, <<>>, fs)
    ELSE IF env.at = "open"
    THEN FsDone(IF env.error = "PermissionError"
                THEN "Permission denied listing directory: " \o path
                ELSE "Error listing directory: " \o env.error, <<>>, fs)
    ELSE IF entries = {}
    THEN FsDone("Directory is empty: " \o path, <<>>, fs)
    ELSE FsDone("Contents of " \o path \o ":\\n\\n" \o JoinLines(Sorted(entries), "\\n"),
                <<>>, fs)

\* FileSystemTool.execute: the operation is chosen by the keys of arguments
fs_execute(args, fs, env) ==
    IF "file_path" \in DOMAIN args /\ "content" \in DOMAIN args
    THEN write_file(args, fs, env)
    ELSE IF "file_path" \in DOMAIN args
    THEN read_file(args, fs, env)
    ELSE IF "directory_path" \in DOMAIN args
    THEN list_directory(args, fs, env)
    ELSE FsDone("Invalid file system operation arguments", <<>>, fs)

----------------------------------------------------------------------------
(* FileSystemTool.execute *)

\* tool calls made on one file system
MaxFsCalls == 2

\* the file system the tool starts on
InitialFs ==
    LET dirs == {"/", "/etc", "/tmp", "/tmp/w", "/tmp/w/sub", "/tmp/w/config",
                 "/tmp/w/.ssh"}
        files == {"/etc/passwd", "/tmp/w/notes.txt", "/tmp/w/.env",
                  "/tmp/w/config/private_key.pem", "/tmp/w/.ssh/id_rsa",
                  "/tmp/w/big.bin"}
        content == [p \in files |->
                      CASE p = "/etc/passwd" -> "root:x:0:0:root:/root:/bin/sh\n"
                        [] p = "/tmp/w/notes.txt" -> "hello\n"
                        [] p = "/tmp/w/.env" -> "KEY=1\n"
                        [] p = "/tmp/w/config/private_key.pem" -> "pk"
                        [] p = "/tmp/w/.ssh/id_rsa" -> "k"
                        [] p = "/tmp/w/big.bin" -> ""]
    IN [p \in dirs \cup files |->
          IF p \in dirs THEN Dir
          ELSE IF p = "/tmp/w/big.bin" THEN File("", 2 * max_size)
          ELSE File(content[p], Len(content[p]))]

ReadPaths ==
    {"/etc/passwd", "/etc/../etc/passwd", "/ETC/PASSWD", "link", "subl/../link",
     "notes.txt", "sub/../notes.txt", "safe", ".env", "/tmp/w/.ENV",
     "config/private_key.pem", "config/PRIVATE_KEY.pem", "~/.ssh/id_rsa",
     ".ssh/id_rsa", "My.Environment", "missing.txt", "out.txt", "sub", "big.bin",
     "loop", ""}

PyBool(b) == [type |-> "bool", v |-> b]

FsArguments ==
    {[file_path |-> PyStr(p)] : p \in ReadPaths}
    \cup {[file_path |-> PyList(<<"notes.txt">>)]}
    \cup {[file_path |-> PyStr(p), content |-> PyStr(c)] :
             p \in {"out.txt", "notes.txt", "notes.txt/x", "new/dir/f.txt", "sub",
                    "link", "/etc/motd", ".env", ""},
             c \in {"", "hi"}}
    \cup {[file_path |-> PyStr("out.txt"), content |-> PyList(<<"hi">>)]}
    \cup {[directory_path |-> PyStr(p)] : p \in {".", "sub", "/etc", "notes.txt", "missing", "config"}}
    \cup {[directory_path |-> PyStr("."), show_hidden |-> PyBool(TRUE)],
          [directory_path |-> PyList(<<".">>)],
          [query |-> PyStr("tla")]}

\* HashConfig(), which the filesystem tool never reads
DefaultConfig ==
    [allow_command_execution |-> TRUE,
     blocked_commands |-> <<"rm -rf", "sudo", "su">>,
     allowed_commands |-> PyNone,
     command_timeout |-> DefaultCommandTimeout]

\* the names get_tool_executor answers with a FileSystemTool
FileSystemToolNames == {"read_file", "write_file", "list_directory"}

\* the orchestrator is about to await
\* get_tool_executor(tool_call.name).execute(tool_call.arguments, config);
\* the arguments are the ones the model sent, whatever the name
FsCall ==
    /\ tool_pc \in {"idle", "done"}
    /\ fs_calls < MaxFsCalls
    /\ fs_calls' = fs_calls + 1
    /\ tool_call_name' \in FileSystemToolNames
    /\ tool_arguments' \in FsArguments
    /\ tool_pc' = "ready"
    /\ tool_result' = NoValue
    /\ opened' = <<>>
    /\ UNCHANGED <<chatVars, queryVars, tool_raised, spawned, filesystem, adapterVars>>

\* FileSystemTool.execute runs
FsExecute ==
    /\ tool_pc = "ready"
    /\ \E env \in EnvOutcomes :
          LET done == fs_execute(tool_arguments, filesystem, env) IN
          /\ tool_result' = done.ret
          /\ tool_raised' = done.raised
          /\ opened' = opened \o done.opened
          /\ filesystem' = done.fs
    /\ tool_pc' = "done"
    /\ UNCHANGED <<chatVars, queryVars, tool_arguments, spawned, fs_calls, tool_call_name,
                   adapterVars>>

FsInit ==
    /\ config = DefaultConfig
    /\ ChatIdle
    /\ QueryIdle
    /\ AdapterIdle
    /\ tool_arguments = <<>>
    /\ tool_pc = "idle"
    /\ tool_result = NoValue
    /\ tool_raised = NoValue
    /\ spawned = <<>>
    /\ filesystem = InitialFs
    /\ opened = <<>>
    /\ fs_calls = 0
    /\ tool_call_name = NoValue

FsNext == FsCall \/ FsExecute

SpecFs == FsInit /\ [][FsNext]_vars

----------------------------------------------------------------------------
(* Properties of FileSystemTool.execute *)

\* execute was awaited and is over
FsReturned == tool_pc = "done" /\ fs_calls > 0

\* the call went to _read_file
IsRead == "file_path" \in DOMAIN tool_arguments /\ "content" \notin DOMAIN tool_arguments

\* the resolved form of the path the call names
ResolvedPath == resolve(ArgGet(tool_arguments, "file_path"))

MatchesSensitivePattern(path) ==
    \E i \in DOMAIN sensitive_patterns : Contains(Lower(path), sensitive_patterns[i])

\* C8: a read of a path whose resolved form contains a sensitive pattern
\* (compared in lower case) returns "Access to sensitive file denied: <path>"
\* and makes no open() call.
C8_SensitiveReadDenied ==
    (/\ FsReturned
     /\ IsRead
     /\ ResolvedPath.raised = NoValue
     /\ MatchesSensitivePattern(ResolvedPath.ret))
    => /\ tool_result = "Access to sensitive file denied: " \o ResolvedPath.ret
       /\ tool_raised = NoValue
       /\ opened = <<>>

\* a symbolic link to /etc/passwd was asked for and refused
C8_Witness ==
    /\ FsReturned
    /\ tool_arguments = [file_path |-> PyStr("link")]
    /\ tool_result = "Access to sensitive file denied: /etc/passwd"
    /\ opened = <<>>

----------------------------------------------------------------------------
(* The provider adapters: Python values they handle *)

\* the result of a step that may raise
Returned(v) == [kind |-> "return", v |-> v]
Raised(e) == [kind |-> "raise", v |-> e]

\* an exception: its class and str(e)
Exc(class, str) == [class |-> class, str |-> str]

\* the classes above a class, the SDKs' remote-call errors included
Bases(class) ==
    CASE class \in {"RateLimitError", "AuthenticationError"} ->
             {class, "APIStatusError", "APIError", "Exception"}
      [] class \in {"APIConnectionError", "APIStatusError"} -> {class, "APIError", "Exception"}
      [] class = "APIError" -> {class, "Exception"}
      [] OTHER -> {class, "Exception"}

\* isinstance(e, class)
IsInstance(e, class) == class \in Bases(e.class)

\* get_field(obj, name, default) where obj is a dict or an object
get_field(obj, name, default) == IF name \in DOMAIN obj THEN obj[name] ELSE default

\* "".join(parts)
RECURSIVE Join(_)
Join(parts) == IF parts = <<>> THEN "" ELSE Head(parts) \o Join(Tail(parts))

\* a dict is the sequence of its <<key, value>> items in insertion order;
\* d[key] = value keeps the position of a key that is already there
DictSet(d, key, value) ==
    IF \E i \in DOMAIN d : d[i][1] = key
    THEN [i \in DOMAIN d |-> IF d[i][1] = key THEN <<key, value>> ELSE d[i]]
    ELSE Append(d, <<key, value>>)

\* d.get(key, default)
DictGet(d, key, default) ==
    IF \E i \in DOMAIN d : d[i][1] = key
    THEN d[CHOOSE i \in DOMAIN d : d[i][1] = key][2]
    ELSE default

\* sep.join(parts)
RECURSIVE JoinWith(_, _)
JoinWith(parts, sep) ==
    IF parts = <<>> THEN ""
    ELSE IF Len(parts) = 1 THEN parts[1]
    ELSE parts[1] \o sep \o JoinWith(Tail(parts), sep)

\* JSON values: PyStr, PyList, PyDict, PyBool and PyNone
PyDict(items) == [type |-> "dict", v |-> items]

\* str(x) of a JSON value nested inside a dict or a list (its repr)
RECURSIVE Repr(_)
Repr(x) ==
    CASE x.type = "str" -> "'" \o x.v \o "'"
      [] x.type = "bool" -> (IF x.v THEN "True" ELSE "False")
      [] x.type = "None" -> "None"
      [] x.type = "list" -> "[" \o JoinWith([i \in DOMAIN x.v |-> Repr(x.v[i])], ", ") \o "]"
      [] x.type = "dict" ->
             "{" \o JoinWith([i \in DOMAIN x.v |->
                                 "'" \o x.v[i][1] \o "': " \o Repr(x.v[i][2])], ", ")
                 \o "}"

\* hash(s) of a string: a value fixed by the string within one process,
\* written as a term because the number changes from process to process
PyHash(s) == "hash(" \o s \o ")"

----------------------------------------------------------------------------
(* json.loads(s) and json.dumps(x, indent=2): strings without escapes,
   objects, arrays, true, false and null *)

JsonWhitespace == {" ", "\t", "\n", "\r"}

\* positions are Python's: 0 is the first character
At(s, pos) == IF pos < Len(s) THEN Char(s, pos + 1) ELSE ""

\* s[a:b]
Slice(s, a, b) ==
    LET stop == IF b < Len(s) THEN b ELSE Len(s) IN
    IF a >= stop THEN "" ELSE SubSeq(s, a + 1, stop)

RECURSIVE SkipWs(_, _)
SkipWs(s, pos) == IF At(s, pos) \in JsonWhitespace THEN SkipWs(s, pos + 1) ELSE pos

\* JSONDecodeError(msg, doc, pos) on a document of one line
JSONDecodeError(msg, pos) ==
    Raised(Exc("JSONDecodeError",
               msg \o ": line 1 column " \o IntToStr(pos + 1)
                   \o " (char " \o IntToStr(pos) \o ")"))

\* a decoded value and the position after it
Scanned(value, end) == Returned([value |-> value, end |-> end])

\* scanstring(s, end): begin is the position of the opening quote
RECURSIVE scanstring(_, _, _)
scanstring(s, begin, end) ==
    IF end >= Len(s)
    THEN JSONDecodeError("Unterminated string starting at", begin)
    ELSE IF At(s, end) = "\""
    THEN Scanned(Slice(s, begin + 1, end), end + 1)
    ELSE scanstring(s, begin, end + 1)

RECURSIVE scan_once(_, _)
RECURSIVE JSONObjectPairs(_, _, _)
RECURSIVE JSONArrayItems(_, _, _)

\* JSONObject after a pair: next is the position after the value and the
\* whitespace behind it
ObjectAfterPair(s, next, pairs) ==
    IF At(s, next) = "}" THEN Scanned(PyDict(pairs), next + 1)
    ELSE IF At(s, next) # "," THEN JSONDecodeError("Expecting ',' delimiter", next)
    ELSE IF At(s, SkipWs(s, next + 1)) # "\""
    THEN JSONDecodeError("Expecting property name enclosed in double quotes",
                         SkipWs(s, next + 1))
    ELSE JSONObjectPairs(s, SkipWs(s, next + 1) + 1, pairs)

\* JSONObject with the value of a pair scanned
ObjectValue(s, key, value, pairs) ==
    IF value.kind = "raise" THEN value
    ELSE ObjectAfterPair(s, SkipWs(s, value.v.end), DictSet(pairs, key, value.v.value))

\* JSONObject with the key of a pair scanned: colon is the position after the
\* key and the whitespace behind it
ObjectColon(s, key, colon, pairs) ==
    IF At(s, colon) # ":" THEN JSONDecodeError("Expecting ':' delimiter", colon)
    ELSE ObjectValue(s, key, scan_once(s, SkipWs(s, colon + 1)), pairs)

ObjectKey(s, key, pairs) ==
    IF key.kind = "raise" THEN key
    ELSE ObjectColon(s, key.v.value, SkipWs(s, key.v.end), pairs)

\* the loop of JSONObject: end0 is the position after the quote that opens a key
JSONObjectPairs(s, end0, pairs) == ObjectKey(s, scanstring(s, end0 - 1, end0), pairs)

\* JSONObject(s, end): first is the position after the opening brace and the
\* whitespace behind it
JSONObject(s, first) ==
    IF At(s, first) = "}" THEN Scanned(PyDict(<<>>), first + 1)
    ELSE IF At(s, first) # "\""
    THEN JSONDecodeError("Expecting property name enclosed in double quotes", first)
    ELSE JSONObjectPairs(s, first + 1, <<>>)

\* JSONArray after an item: next is the position after the item and the
\* whitespace behind it
ArrayAfterItem(s, next, values) ==
    IF At(s, next) = "]" THEN Scanned(PyList(values), next + 1)
    ELSE IF At(s, next) # "," THEN JSONDecodeError("Expecting ',' delimiter", next)
    ELSE JSONArrayItems(s, SkipWs(s, next + 1), values)

ArrayItem(s, value, values) ==
    IF value.kind = "raise" THEN value
    ELSE ArrayAfterItem(s, SkipWs(s, value.v.end), Append(values, value.v.value))

\* the loop of JSONArray: end is the position of the next item
JSONArrayItems(s, end, values) == ArrayItem(s, scan_once(s, end), values)

\* JSONArray(s, end): first is the position after the opening bracket and the
\* whitespace behind it
JSONArray(s, first) ==
    IF At(s, first) = "]" THEN Scanned(PyList(<<>>), first + 1)
    ELSE JSONArrayItems(s, first, <<>>)

\* a scanned string as a JSON value
StringValue(str) ==
    IF str.kind = "raise" THEN str ELSE Scanned(PyStr(str.v.value), str.v.end)

scan_once(s, pos) ==
    CASE At(s, pos) = "\"" -> StringValue(scanstring(s, pos, pos + 1))
      [] At(s, pos) = "{" -> JSONObject(s, SkipWs(s, pos + 1))
      [] At(s, pos) = "[" -> JSONArray(s, SkipWs(s, pos + 1))
      [] Slice(s, pos, pos + 4) = "null" -> Scanned(PyNone, pos + 4)
      [] Slice(s, pos, pos + 4) = "true" -> Scanned(PyBool(TRUE), pos + 4)
      [] Slice(s, pos, pos + 5) = "false" -> Scanned(PyBool(FALSE), pos + 5)
      [] OTHER -> JSONDecodeError("Expecting value", pos)

\* JSONDecoder.decode: the scanned value, with nothing but whitespace behind it
decode(s, obj, end) ==
    IF end # Len(s) THEN JSONDecodeError("Extra data", end) ELSE Returned(obj)

raw_decode(s, obj) ==
    IF obj.kind = "raise" THEN obj ELSE decode(s, obj.v.value, SkipWs(s, obj.v.end))

\* json.loads(s): the decoded value, or JSONDecodeError
json_loads(s) == raw_decode(s, scan_once(s, SkipWs(s, 0)))

RECURSIVE Spaces(_)
Spaces(n) == IF n = 0 THEN "" ELSE " " \o Spaces(n - 1)

JsonString(s) == "\"" \o s \o "\""

\* a dict or a list whose items are already printed, at a nesting level
DumpItems(open, items, close, level) ==
    IF items = <<>> THEN open \o close
    ELSE open \o "\n" \o Spaces(2 * (level + 1))
         \o JoinWith(items, ",\n" \o Spaces(2 * (level + 1)))
         \o "\n" \o Spaces(2 * level) \o close

RECURSIVE Dump(_, _)
Dump(x, level) ==
    CASE x.type = "str" -> JsonString(x.v)
      [] x.type = "bool" -> (IF x.v THEN "true" ELSE "false")
      [] x.type = "None" -> "null"
      [] x.type = "list" ->
             DumpItems("[", [i \in DOMAIN x.v |-> Dump(x.v[i], level + 1)], "]", level)
      [] x.type = "dict" ->
             DumpItems("{", [i \in DOMAIN x.v |->
                                JsonString(x.v[i][1]) \o ": " \o Dump(x.v[i][2], level + 1)],
                       "}", level)

\* json.dumps(x, indent=2)
json_dumps_indent(x) == Dump(x, 0)

----------------------------------------------------------------------------
(* Building the vendor request: a dict is a record, a list a sequence and
   None is PyNone *)

\* a record with one more key (a later assignment to a key replaces it)
With(d, key, value) == (key :> value) @@ d

\* ---- AnthropicProvider._format_messages_for_provider

\* the tool_use block of a tool call whose arguments are decoded
tool_use_block(tc, input) ==
    IF input.kind = "raise" THEN input
    ELSE Returned([type |-> "tool_use",
                   id |-> get_field(tc, "id", get_field(tc, "call_id", "")),
                   name |-> get_field(get_field(tc, "function", <<>>), "name", ""),
                   input |-> input.v])

anthropic_tool_use(tc) ==
    tool_use_block(tc,
        IF "arguments" \in DOMAIN get_field(tc, "function", <<>>)
        THEN json_loads(tc.function.arguments)
        ELSE Returned(PyDict(<<>>)))

\* the content blocks of an assistant message that carries tool calls
RECURSIVE anthropic_content_blocks(_, _, _)

\* one iteration of the loop over tool_calls, the block built
content_blocks_append(tool_calls, i, content_blocks, block) ==
    IF block.kind = "raise" THEN block
    ELSE anthropic_content_blocks(tool_calls, i + 1, Append(content_blocks, block.v))

anthropic_content_blocks(tool_calls, i, content_blocks) ==
    IF i > Len(tool_calls) THEN Returned(content_blocks)
    ELSE content_blocks_append(tool_calls, i, content_blocks,
                               anthropic_tool_use(tool_calls[i]))

RECURSIVE anthropic_format_scan(_, _, _, _)

\* an assistant message with tool calls, its content blocks built
assistant_with_tool_calls(msgs, i, system_message, anthropic_messages, blocks) ==
    IF blocks.kind = "raise" THEN blocks
    ELSE anthropic_format_scan(msgs, i + 1, system_message,
             Append(anthropic_messages, [role |-> "assistant", content |-> blocks.v]))

anthropic_format_scan(msgs, i, system_message, anthropic_messages) ==
    IF i > Len(msgs)
    THEN Returned([system |-> system_message, messages |-> anthropic_messages])
    ELSE
    LET m == msgs[i] IN
    IF "role" \notin DOMAIN m THEN Raised(Exc("KeyError", "'role'"))
    ELSE
    LET role == m.role
        content == get_field(m, "content", "")
        tool_calls == get_field(m, "tool_calls", <<>>)
        tool_call_id == get_field(m, "tool_call_id", get_field(m, "call_id", ""))
    IN
    IF role = "system"
    THEN anthropic_format_scan(msgs, i + 1, PyStr(content), anthropic_messages)
    ELSE IF role = "assistant" /\ tool_calls # <<>>
    THEN assistant_with_tool_calls(msgs, i, system_message, anthropic_messages,
             anthropic_content_blocks(tool_calls, 1,
                 IF content # "" THEN <<[type |-> "text", text |-> content]>>
                 ELSE <<>>))
    ELSE IF (role = "assistant" /\ content # "") \/ role = "user"
    THEN anthropic_format_scan(msgs, i + 1, system_message,
             Append(anthropic_messages, [role |-> role, content |-> content]))
    ELSE IF role = "tool"
    THEN anthropic_format_scan(msgs, i + 1, system_message,
             Append(anthropic_messages,
                 IF tool_call_id # ""
                 THEN [role |-> "user",
                       content |-> <<[type |-> "tool_result",
                                      tool_use_id |-> tool_call_id,
                                      content |-> content]>>]
                 ELSE [role |-> "user", content |-> "Tool result: " \o content]))
    ELSE anthropic_format_scan(msgs, i + 1, system_message, anthropic_messages)

anthropic_format_messages(msgs) == anthropic_format_scan(msgs, 1, PyNone, <<>>)

\* AnthropicProvider._format_tools_for_provider
RECURSIVE anthropic_format_tools(_)

\* one tool of the comprehension, the tools after it formatted
format_tool(tool, rest) ==
    IF rest.kind = "raise" THEN rest
    ELSE IF tool.type = "function"
    THEN Returned(<<[name |-> tool.function.name,
                     description |-> tool.function.description,
                     input_schema |-> tool.function.parameters]>> \o rest.v)
    ELSE rest

anthropic_format_tools(tools) ==
    IF tools = <<>> THEN Returned(<<>>)
    ELSE IF "type" \notin DOMAIN Head(tools) THEN Raised(Exc("KeyError", "'type'"))
    ELSE format_tool(Head(tools), anthropic_format_tools(Tail(tools)))

\* request_params, the messages and the tools formatted
anthropic_request_params(prov, args, formatted, tools) ==
    IF formatted.kind = "raise" THEN formatted
    ELSE IF tools.kind = "raise" THEN tools
    ELSE
    LET base == [model |-> prov.model,
                 messages |-> formatted.v.messages,
                 max_tokens |-> prov.max_response_tokens,
                 temperature |-> "0.7"]
        with_system == IF Truthy(formatted.v.system)
                       THEN With(base, "system", formatted.v.system.v)
                       ELSE base
    IN  Returned(IF args.tools # <<>> THEN With(with_system, "tools", tools.v)
                 ELSE with_system)

\* request_params of AnthropicProvider.generate_response
anthropic_request(prov, args) ==
    anthropic_request_params(prov, args, anthropic_format_messages(args.messages),
                             anthropic_format_tools(args.tools))
\* ---- OpenAIProvider._format_messages_for_responses

\* message.get("role"): None is written NoValue
RoleOf(m) == get_field(m, "role", NoValue)

\* make_message_item(role, content); n is assistant_msg_index after the call
make_message_item(role, content, n) ==
    IF role = "assistant"
    THEN [type |-> "message", role |-> "assistant",
          content |-> <<[type |-> "output_text", text |-> content]>>,
          status |-> "completed",
          id |-> "assistant_msg_" \o IntToStr(n)]
    ELSE [type |-> "message", role |-> role,
          content |-> <<[type |-> "input_text", text |-> content]>>]

\* tc.get("id") or tc.get("call_id")
CallIdOf(tc) ==
    IF get_field(tc, "id", "") # "" THEN tc.id ELSE get_field(tc, "call_id", "")

\* the function_call items of one message
RECURSIVE openai_function_calls(_)
openai_function_calls(tool_calls) ==
    IF tool_calls = <<>> THEN <<>>
    ELSE
    LET tc == Head(tool_calls)
        func == get_field(tc, "function", <<>>)
        name == get_field(func, "name", "")
    IN  (IF CallIdOf(tc) # "" /\ name # "" /\ "arguments" \in DOMAIN func
         THEN <<[type |-> "function_call", call_id |-> CallIdOf(tc),
                 name |-> name, arguments |-> func.arguments]>>
         ELSE <<>>)
        \o openai_function_calls(Tail(tool_calls))

RECURSIVE openai_format_scan(_, _, _, _)
openai_format_scan(msgs, i, assistant_msg_index, input_items) ==
    IF i > Len(msgs) THEN input_items
    ELSE
    LET m == msgs[i]
        role == RoleOf(m)
        content == get_field(m, "content", "")
        is_message == role \in {"system", "user", "assistant", "developer"} /\ content # ""
        n == IF is_message /\ role = "assistant" THEN assistant_msg_index + 1
             ELSE assistant_msg_index
        call_id == IF get_field(m, "tool_call_id", "") # "" THEN m.tool_call_id
                   ELSE get_field(m, "call_id", "")
    IN  openai_format_scan(msgs, i + 1, n,
            input_items
            \o (IF is_message THEN <<make_message_item(role, content, n)>> ELSE <<>>)
            \o openai_function_calls(get_field(m, "tool_calls", <<>>))
            \o (IF role # "tool" THEN <<>>
                ELSE IF call_id # ""
                THEN <<[type |-> "function_call_output", call_id |-> call_id,
                        output |-> content]>>
                ELSE IF content # ""
                THEN <<make_message_item("user", "Tool result: " \o content, n)>>
                ELSE <<>>))

openai_format_messages(msgs) == openai_format_scan(msgs, 1, 0, <<>>)

\* the messages of a context that satisfy a test, in order
RECURSIVE SelectMessages(_, _)
SelectMessages(msgs, instructions) ==
    IF msgs = <<>> THEN <<>>
    ELSE (IF (RoleOf(Head(msgs)) \in {"system", "developer"}) = instructions
          THEN <<Head(msgs)>> ELSE <<>>)
         \o SelectMessages(Tail(msgs), instructions)

RECURSIVE instruction_parts(_)
instruction_parts(msgs) ==
    IF msgs = <<>> THEN <<>>
    ELSE (IF get_field(Head(msgs), "content", "") # ""
          THEN <<Head(msgs).content>> ELSE <<>>)
         \o instruction_parts(Tail(msgs))

\* the Responses API shape of the tools
RECURSIVE openai_response_tools(_)
openai_response_tools(tools) ==
    IF tools = <<>> THEN <<>>
    ELSE
    LET tool == Head(tools) IN
    <<IF get_field(tool, "type", NoValue) = "function" /\ "function" \in DOMAIN tool
      THEN [type |-> "function",
            name |-> tool.function.name,
            description |-> tool.function.description,
            parameters |-> tool.function.parameters,
            strict |-> TRUE]
      ELSE tool>>
    \o openai_response_tools(Tail(tools))

\* request_params of OpenAIProvider.generate_response
openai_request(prov, args) ==
    LET parts == instruction_parts(SelectMessages(args.messages, TRUE))
        input_messages == SelectMessages(args.messages, FALSE)
        input_items == openai_format_messages(
                           IF input_messages # <<>> THEN input_messages ELSE args.messages)
        format == [format |-> [type |-> "text"]]
        text_config == IF prov.openai_text_verbosity # ""
                       THEN With(format, "verbosity", prov.openai_text_verbosity)
                       ELSE format
        base == [model |-> prov.model,
                 input |-> input_items,
                 max_output_tokens |-> prov.max_response_tokens,
                 text |-> text_config]
        with_tools == IF args.tools # <<>>
                      THEN With(With(base, "tools", openai_response_tools(args.tools)),
                                "tool_choice", "auto")
                      ELSE base
        with_instructions == IF JoinWith(parts, "\n\n") # ""
                             THEN With(with_tools, "instructions", JoinWith(parts, "\n\n"))
                             ELSE with_tools
    IN  Returned(IF prov.openai_reasoning_effort # ""
                 THEN With(with_instructions, "reasoning",
                           [effort |-> prov.openai_reasoning_effort])
                 ELSE with_instructions)

\* ---- GoogleProvider

is_gemma_model(prov) == Contains(Lower(prov.model), "gemma")

CodeFence == Backtick \o Backtick \o Backtick

UnsupportedKeys == {"additionalProperties", "additional_properties"}

\* _clean_parameter_schema: the keys Google rejects are dropped at every level
RECURSIVE clean_parameter_schema(_)
RECURSIVE clean_items(_)
clean_items(items) ==
    IF items = <<>> THEN <<>>
    ELSE
    LET key == Head(items)[1]
        value == Head(items)[2]
    IN  (IF key \in UnsupportedKeys THEN <<>>
         ELSE IF value.type = "dict" THEN <<<<key, clean_parameter_schema(value)>>>>
         ELSE IF value.type = "list"
         THEN <<<<key, PyList([i \in DOMAIN value.v |->
                                  IF value.v[i].type = "dict"
                                  THEN clean_parameter_schema(value.v[i])
                                  ELSE value.v[i]])>>>>
         ELSE <<Head(items)>>)
        \o clean_items(Tail(items))

clean_parameter_schema(schema) ==
    IF schema.type # "dict" THEN schema ELSE PyDict(clean_items(schema.v))

\* _convert_tools_to_google_format
RECURSIVE function_declarations(_)
function_declarations(tools) ==
    IF tools = <<>> THEN <<>>
    ELSE
    LET tool == Head(tools)
        function == get_field(tool, "function", <<>>)
    IN  (IF get_field(tool, "type", NoValue) = "function"
         THEN <<[name |-> function.name,
                 description |-> function.description,
                 parameters |-> clean_parameter_schema(function.parameters)]>>
         ELSE <<>>)
        \o function_declarations(Tail(tools))

\* [types.Tool(function_declarations=...)], or an empty list
google_tool_list(declarations) ==
    IF declarations # <<>> THEN <<[function_declarations |-> declarations]>> ELSE <<>>

convert_tools_to_google_format(tools) == google_tool_list(function_declarations(tools))

\* _format_tools_for_system_prompt
RECURSIVE ToolPromptEntries(_)
ToolPromptEntries(tools) ==
    IF tools = <<>> THEN ""
    ELSE
    LET tool == Head(tools) IN
    (IF get_field(tool, "type", NoValue) = "function"
     THEN "- Name: " \o tool.function.name
          \o "\n  Description: " \o tool.function.description
          \o "\n  Parameters: " \o json_dumps_indent(tool.function.parameters) \o "\n\n"
     ELSE "")
    \o ToolPromptEntries(Tail(tools))

format_tools_for_system_prompt(tools) ==
    "\n\nAVAILABLE TOOLS:\n" \o ToolPromptEntries(tools)
    \o "TOOL USAGE INSTRUCTIONS:\n"
    \o "To use a tool, you MUST respond with a JSON object wrapped in markdown code blocks like this:\n"
    \o CodeFence \o "json\n"
    \o "{\n  \"tool_uses\": [\n    {\n      \"tool_name\": \"example_tool\",\n      \"arguments\": {\n        \"param1\": \"value1\"\n      }\n    }\n  ]\n}\n"
    \o CodeFence \o "\n"
    \o "If you are not using a tool, do not output this JSON format."

\* ---- GoogleProvider._format_messages_for_provider

\* json.loads(args_str) with JSONDecodeError replaced by {}
args_or_empty(args) == IF args.kind = "raise" THEN PyDict(<<>>) ELSE args.v

google_args(function) == args_or_empty(json_loads(get_field(function, "arguments", "{}")))

\* the loop without `tool_id_to_name[tool_id] = name`
cache_tool_ids_Forget(tool_calls, tool_id_to_name) == tool_id_to_name

\* tool_id_to_name after the tool calls of one assistant message
RECURSIVE cache_tool_ids(_, _)
cache_tool_ids(tool_calls, tool_id_to_name) ==
    IF tool_calls = <<>> THEN tool_id_to_name
    ELSE
    LET tc == Head(tool_calls)
        name == get_field(get_field(tc, "function", <<>>), "name", NoValue)
    IN  cache_tool_ids(Tail(tool_calls),
            IF get_field(tc, "id", "") # ""
            THEN DictSet(tool_id_to_name, tc.id, name)
            ELSE tool_id_to_name)

\* the parts of the tool calls of an assistant message
google_tool_call_parts(prov, tool_calls) ==
    IF is_gemma_model(prov)
    THEN <<[text |-> CodeFence \o "json\n"
                     \o json_dumps_indent(PyDict(<<<<"tool_uses", PyList(
                            [i \in DOMAIN tool_calls |->
                                LET function == get_field(tool_calls[i], "function", <<>>) IN
                                PyDict(<<<<"tool_name",
                                          IF "name" \in DOMAIN function
                                          THEN PyStr(function.name) ELSE PyNone>>,
                                        <<"arguments", google_args(function)>>>>)])>>>>))
                     \o "\n" \o CodeFence]>>
    ELSE [i \in DOMAIN tool_calls |->
             LET function == get_field(tool_calls[i], "function", <<>>) IN
             [function_call |-> [name |-> get_field(function, "name", NoValue),
                                 args |-> google_args(function)]]]

\* the content of an assistant message: none when it has no parts
model_content(parts) ==
    IF parts # <<>> THEN <<[role |-> "model", parts |-> parts]>> ELSE <<>>

RECURSIVE google_contents(_, _, _, _, _)
google_contents(prov, msgs, i, tool_id_to_name, contents) ==
    IF i > Len(msgs) THEN contents
    ELSE
    LET m == msgs[i]
        role == RoleOf(m)
        content == get_field(m, "content", "")
        tool_calls == get_field(m, "tool_calls", <<>>)
        name == DictGet(tool_id_to_name, get_field(m, "tool_call_id", NoValue), NoValue)
        added ==
            CASE role = "system" ->
                     <<[role |-> "user", parts |-> <<[text |-> "System: " \o content]>>]>>
              [] role = "user" ->
                     <<[role |-> "user", parts |-> <<[text |-> content]>>]>>
              [] role = "assistant" ->
                     model_content(
                         (IF content # "" THEN <<[text |-> content]>> ELSE <<>>)
                         \o (IF tool_calls # <<>>
                             THEN google_tool_call_parts(prov, tool_calls)
                             ELSE <<>>))
              [] role = "tool" ->
                     <<[role |-> "user",
                        parts |->
                          IF is_gemma_model(prov)
                          THEN <<[text |-> "Tool Result ("
                                           \o (IF name \in {NoValue, ""} THEN "unknown"
                                               ELSE name)
                                           \o "):\n" \o content]>>
                          ELSE IF name \in {NoValue, ""}
                          THEN <<[text |-> "Tool Result (unknown function): " \o content]>>
                          ELSE <<[function_response |->
                                     [name |-> name,
                                      response |-> [content |-> content]]]>>]>>
              [] OTHER -> <<>>
    IN  google_contents(prov, msgs, i + 1,
            IF role = "assistant" THEN cache_tool_ids(tool_calls, tool_id_to_name)
            ELSE tool_id_to_name,
            contents \o added)

\* adjacent contents of the same role are merged into the first of them
RECURSIVE merge_contents(_, _)
merge_contents(contents, merged_contents) ==
    IF contents = <<>> THEN merged_contents
    ELSE
    LET last == Len(merged_contents) IN
    IF last > 0 /\ merged_contents[last].role = Head(contents).role
    THEN merge_contents(Tail(contents),
             [merged_contents EXCEPT ![last].parts = @ \o Head(contents).parts])
    ELSE merge_contents(Tail(contents), Append(merged_contents, Head(contents)))

google_format_messages(prov, msgs) ==
    merge_contents(google_contents(prov, msgs, 1, <<>>, <<>>), <<>>)

\* messages_copy of generate_response: the tool prompt goes into the first
\* system message, or into a new one at the front
RECURSIVE inject_tool_prompt(_, _, _)
inject_tool_prompt(msgs, i, tool_prompt) ==
    IF i > Len(msgs)
    THEN <<[role |-> "system", content |-> tool_prompt]>> \o msgs
    ELSE IF RoleOf(msgs[i]) = "system"
    THEN [msgs EXCEPT ![i] = With(msgs[i], "content", msgs[i].content \o tool_prompt)]
    ELSE inject_tool_prompt(msgs, i + 1, tool_prompt)

SafetySettings ==
    [i \in 1..4 |->
        [category |-> <<"HARM_CATEGORY_HARASSMENT", "HARM_CATEGORY_HATE_SPEECH",
                        "HARM_CATEGORY_SEXUALLY_EXPLICIT",
                        "HARM_CATEGORY_DANGEROUS_CONTENT">>[i],
         threshold |-> "BLOCK_ONLY_HIGH"]]

\* the preparation with messages_copy = messages: the prompt is written into
\* the caller's list
prepared_messages_InPlace(prov, args) ==
    IF is_gemma_model(prov) /\ args.tools # <<>>
    THEN [messages |-> inject_tool_prompt(args.messages, 1,
                                          format_tools_for_system_prompt(args.tools)),
          formatted |-> inject_tool_prompt(args.messages, 1,
                                           format_tools_for_system_prompt(args.tools))]
    ELSE [messages |-> args.messages, formatted |-> args.messages]

\* the two lists after the preparation of the messages: the caller's list
\* (messages) and the list that is formatted. For Gemma with tools the prompt
\* is written into messages_copy = [m.copy() for m in messages], a new list of
\* new dicts, so the caller's list and dicts keep their values
prepared_messages(prov, args) ==
    IF is_gemma_model(prov) /\ args.tools # <<>>
    THEN [messages |-> args.messages,
          formatted |-> inject_tool_prompt(args.messages, 1,
                                           format_tools_for_system_prompt(args.tools))]
    ELSE [messages |-> args.messages, formatted |-> args.messages]

\* the arguments of generate_content of GoogleProvider.generate_response
google_request(prov, args) ==
    LET inject == is_gemma_model(prov) /\ args.tools # <<>>
        google_messages ==
            google_format_messages(prov, prepared_messages(prov, args).formatted)
        google_tools == IF inject \/ args.tools = <<>> THEN PyNone
                        ELSE PyList(convert_tools_to_google_format(args.tools))
    IN  Returned([model |-> prov.model,
                  contents |-> google_messages,
                  config |-> [temperature |-> "0.7",
                              max_output_tokens |-> prov.max_response_tokens,
                              tools |-> google_tools,
                              safety_settings |-> SafetySettings]])

\* the caller's list of messages after the request was built: the OpenAI and
\* Anthropic adapters only read it (the items and blocks they build are new
\* dicts and lists), the Google adapter prepares it first
messages_after(prov, args) ==
    IF prov.name = "google" THEN prepared_messages(prov, args).messages
    ELSE args.messages

\* the request each adapter builds
format_request(prov, args) ==
    CASE prov.name = "openai" -> openai_request(prov, args)
      [] prov.name = "anthropic" -> anthropic_request(prov, args)
      [] prov.name = "google" -> google_request(prov, args)

----------------------------------------------------------------------------
(* Normalizing the vendor response *)

\* ToolCall.__init__'s call_id when the caller passes none
default_call_id(name, arguments) ==
    "call_" \o name \o "_" \o PyHash(IF arguments.type = "str" THEN arguments.v
                                     ELSE Repr(arguments))

\* a or b, for ids where None is written ""
Or(a, b) == IF a # "" THEN a ELSE b

\* LLMResponse(content, tool_calls, model, usage)
NormalizedResponse(content, tool_calls, model, usage) ==
    With(With(LLMResponse(content, tool_calls), "model", model), "usage", usage)

\* reading an attribute of a vendor object that is a plain dict
DictAttributeError(name) == Raised(Exc("AttributeError", AttributeErrorOf("dict", name)))

\* ---- OpenAIProvider.generate_response, after the call

\* extract_text_from_content(content_item): None is written ""
extract_text_from_content(content_item) ==
    LET content_type == get_field(content_item, "type", NoValue)
        text == get_field(content_item, "text", "")
    IN
    IF content_type \in {"output_text", "input_text", "text"} /\ text # "" THEN text
    ELSE IF content_type = "refusal" /\ get_field(content_item, "refusal", "") # ""
    THEN content_item.refusal
    ELSE IF text # "" THEN text
    ELSE get_field(content_item, "content", "")

RECURSIVE message_texts(_)
message_texts(message_content) ==
    IF message_content = <<>> THEN <<>>
    ELSE (IF extract_text_from_content(Head(message_content)) # ""
          THEN <<extract_text_from_content(Head(message_content))>>
          ELSE <<>>)
         \o message_texts(Tail(message_content))

RECURSIVE summary_texts(_)
summary_texts(summaries) ==
    IF summaries = <<>> THEN <<>>
    ELSE (IF get_field(Head(summaries), "text", "") # ""
          THEN <<Head(summaries).text>> ELSE <<>>)
         \o summary_texts(Tail(summaries))

\* the locals of the loop over response.output
Extracted(content_parts, tool_calls, reasoning_summaries) ==
    [content_parts |-> content_parts, tool_calls |-> tool_calls,
     reasoning_summaries |-> reasoning_summaries]

\* a function_call item whose arguments are decoded
function_call_item(output, acc, call_id, arguments) ==
    IF arguments.kind = "raise"
    THEN [acc EXCEPT !.content_parts =
             Append(@, "\\n\\nNote: Malformed tool call arguments: " \o output.arguments)]
    ELSE [acc EXCEPT !.tool_calls =
             Append(@, ToolCall(output.name, arguments.v,
                                Or(call_id, default_call_id(output.name, arguments.v))))]

\* the arguments of a custom_tool_call: its input decoded, or wrapped
custom_tool_arguments(output, decoded) ==
    IF decoded.kind = "raise" THEN PyDict(<<<<"input", PyStr(output.input)>>>>)
    ELSE decoded.v

custom_tool_call_item(output, acc, call_id, arguments) ==
    [acc EXCEPT !.tool_calls =
        Append(@, ToolCall(output.name, arguments,
                           Or(call_id, default_call_id(output.name, arguments))))]

\* one iteration of the loop over response.output
openai_output_item(output, acc) ==
    LET output_type == get_field(output, "type", NoValue)
        call_id == Or(get_field(output, "call_id", ""), get_field(output, "id", ""))
    IN
    CASE output_type = "message" ->
             LET message_content == get_field(output, "content", PyList(<<>>)) IN
             [acc EXCEPT !.content_parts =
                 @ \o (IF message_content.type = "str"
                       THEN (IF message_content.v # "" THEN <<message_content.v>> ELSE <<>>)
                       ELSE message_texts(message_content.v))]
      [] output_type \in {"output_text", "text"} ->
             [acc EXCEPT !.content_parts =
                 @ \o (IF get_field(output, "text", "") # "" THEN <<output.text>> ELSE <<>>)]
      [] output_type = "function_call" ->
             IF "name" \notin DOMAIN output \/ "arguments" \notin DOMAIN output THEN acc
             ELSE function_call_item(output, acc, call_id, json_loads(output.arguments))
      [] output_type = "custom_tool_call" ->
             IF "name" \notin DOMAIN output \/ "input" \notin DOMAIN output THEN acc
             ELSE custom_tool_call_item(output, acc, call_id,
                      custom_tool_arguments(output, json_loads(output.input)))
      [] output_type = "reasoning" ->
             [acc EXCEPT !.reasoning_summaries =
                 @ \o summary_texts(get_field(output, "summary", <<>>))]
      [] OTHER -> acc

RECURSIVE openai_output_scan(_, _, _)
openai_output_scan(output, i, acc) ==
    IF i > Len(output) THEN acc
    ELSE openai_output_scan(output, i + 1, openai_output_item(output[i], acc))

\* the message for a response that carries neither text nor calls
openai_no_response(resp) ==
    LET status == get_field(resp, "status", "")
        incomplete == get_field(resp, "incomplete_details", PyNone)
        detail == IF status # "" /\ status # "completed"
                  THEN " (status: " \o status \o ")" ELSE ""
    IN  "No response generated by OpenAI."
        \o (IF incomplete # PyNone
            THEN detail \o " (incomplete: IncompleteDetails(reason='"
                 \o incomplete.reason \o "'))"
            ELSE detail)
        \o " Try another model or run with --debug for details."

\* content of OpenAIProvider.generate_response
openai_content(resp, streamed, acc) ==
    LET joined == Or(Join(acc.content_parts), Join(streamed))
        with_output_text == Or(joined, get_field(resp, "output_text", ""))
        with_reasoning ==
            IF with_output_text = "" /\ acc.tool_calls = <<>>
               /\ acc.reasoning_summaries # <<>>
            THEN "Reasoning summary (no final text output): "
                 \o JoinWith(acc.reasoning_summaries, " ")
            ELSE with_output_text
    IN  IF with_reasoning = "" /\ acc.tool_calls = <<>> THEN openai_no_response(resp)
        ELSE with_reasoning

\* the response made of what the loop extracted
openai_normalize(prov, resp, streamed, acc) ==
    IF "usage" \notin DOMAIN resp THEN DictAttributeError("usage")
    ELSE Returned(NormalizedResponse(
             openai_content(resp, streamed, acc), acc.tool_calls, prov.model,
             IF resp.usage = PyNone THEN PyNone
             ELSE [prompt_tokens |-> resp.usage.input_tokens,
                   completion_tokens |-> resp.usage.output_tokens,
                   total_tokens |-> resp.usage.total_tokens]))

openai_parse(prov, resp, streamed) ==
    IF get_field(resp, "error", PyNone) # PyNone
    THEN Returned(NormalizedResponse(
             "OpenAI response error ("
                 \o get_field(resp.error, "code", "unknown_error") \o "): "
                 \o resp.error.message,
             <<>>, prov.model, PyNone))
    ELSE openai_normalize(prov, resp, streamed,
             openai_output_scan(get_field(resp, "output", <<>>), 1,
                                Extracted(<<>>, <<>>, <<>>)))
\* ---- AnthropicProvider.generate_response, after the call

RECURSIVE anthropic_blocks_scan(_, _, _, _)
anthropic_blocks_scan(content_blocks, i, content, tool_calls) ==
    IF i > Len(content_blocks) THEN [content |-> content, tool_calls |-> tool_calls]
    ELSE
    LET block == content_blocks[i] IN
    IF block.type = "text"
    THEN anthropic_blocks_scan(content_blocks, i + 1, content \o block.text, tool_calls)
    ELSE IF block.type = "tool_use"
    THEN anthropic_blocks_scan(content_blocks, i + 1, content,
             Append(tool_calls,
                    ToolCall(block.name, block.input,
                             Or(block.id, default_call_id(block.name, block.input)))))
    ELSE anthropic_blocks_scan(content_blocks, i + 1, content, tool_calls)

\* the response made of what the loop over the blocks extracted
anthropic_normalize(prov, resp, streamed, acc) ==
    IF "usage" \notin DOMAIN resp THEN DictAttributeError("usage")
    ELSE Returned(NormalizedResponse(
             Or(acc.content, Join(streamed)), acc.tool_calls, prov.model,
             IF resp.usage = PyNone THEN PyNone
             ELSE [input_tokens |-> resp.usage.input_tokens,
                   output_tokens |-> resp.usage.output_tokens,
                   total_tokens |-> resp.usage.input_tokens + resp.usage.output_tokens]))

anthropic_parse(prov, resp, streamed) ==
    IF "content" \notin DOMAIN resp THEN DictAttributeError("content")
    ELSE anthropic_normalize(prov, resp, streamed,
                             anthropic_blocks_scan(resp.content, 1, "", <<>>))

\* ---- GoogleProvider._parse_tool_calls_from_text

\* the position after the whitespace (\s*) that starts at pos
RECURSIVE SkipSpace(_, _)
SkipSpace(s, pos) == IF At(s, pos) \in Whitespace THEN SkipSpace(s, pos + 1) ELSE pos

StartsAt(s, pos, p) == Slice(s, pos, pos + Len(p)) = p

\* the first closing brace at or after pos that only whitespace separates
\* from a closing fence; Len(s) if there is none
ClosingBrace(s, pos) ==
    LET closing == { p \in pos..(Len(s) - 1) :
                        At(s, p) = "}" /\ StartsAt(s, SkipSpace(s, p + 1), CodeFence) }
    IN  IF closing = {} THEN Len(s)
        ELSE CHOOSE p \in closing : \A q \in closing : p <= q

\* re.findall(json_pattern, text, re.DOTALL): the groups, from position pos on
RECURSIVE json_blocks(_, _)
json_blocks(text, pos) ==
    IF pos >= Len(text) THEN <<>>
    ELSE
    LET open == SkipSpace(text, pos + Len(CodeFence) + 4)
        close == ClosingBrace(text, open + 1)
    IN
    IF StartsAt(text, pos, CodeFence \o "json") /\ At(text, open) = "{" /\ close < Len(text)
    THEN <<SubSeq(text, open + 1, close + 1)>>
         \o json_blocks(text, SkipSpace(text, close + 1) + Len(CodeFence))
    ELSE json_blocks(text, pos + 1)

\* the loop over uses; a use that is not a dict ends the parsing (the
\* AttributeError is swallowed by the outer except)
RECURSIVE tool_uses_scan(_, _, _)
tool_uses_scan(uses, i, tool_calls) ==
    IF i > Len(uses) THEN [tool_calls |-> tool_calls, failed |-> FALSE]
    ELSE IF uses[i].type # "dict" THEN [tool_calls |-> tool_calls, failed |-> TRUE]
    ELSE
    LET name == DictGet(uses[i].v, "tool_name", PyNone)
        args == DictGet(uses[i].v, "arguments", PyDict(<<>>))
        name_str == IF name.type = "str" THEN name.v ELSE Repr(name)
    IN  tool_uses_scan(uses, i + 1,
            IF Truthy(name)
            THEN Append(tool_calls,
                        ToolCall(name_str, args, default_call_id(name_str, args)))
            ELSE tool_calls)

RECURSIVE matches_scan(_, _, _)

\* for tool_use in data.get("tool_uses", []), the uses scanned when a list
match_uses(matches, i, tool_calls, uses, scanned) ==
    IF uses.type \notin {"list", "dict", "str"} THEN tool_calls
    ELSE IF uses.type # "list"
    THEN (IF Len(uses.v) = 0 THEN matches_scan(matches, i + 1, tool_calls)
          ELSE tool_calls)
    ELSE IF scanned.failed THEN scanned.tool_calls
    ELSE matches_scan(matches, i + 1, scanned.tool_calls)

\* one match, decoded
match_data(matches, i, tool_calls, data) ==
    IF data.kind = "raise" THEN matches_scan(matches, i + 1, tool_calls)
    ELSE IF data.v.type # "dict" THEN tool_calls
    ELSE match_uses(matches, i, tool_calls,
                    DictGet(data.v.v, "tool_uses", PyList(<<>>)),
                    IF DictGet(data.v.v, "tool_uses", PyList(<<>>)).type = "list"
                    THEN tool_uses_scan(DictGet(data.v.v, "tool_uses", PyList(<<>>)).v,
                                        1, tool_calls)
                    ELSE [tool_calls |-> tool_calls, failed |-> FALSE])

matches_scan(matches, i, tool_calls) ==
    IF i > Len(matches) THEN tool_calls
    ELSE match_data(matches, i, tool_calls, json_loads(matches[i]))

parse_tool_calls_from_text(text) == matches_scan(json_blocks(text, 0), 1, <<>>)

\* ---- GoogleProvider.generate_response, after the call

RECURSIVE google_parts_scan(_, _, _, _, _)
google_parts_scan(prov, parts, i, content, tool_calls) ==
    IF i > Len(parts) THEN [content |-> content, tool_calls |-> tool_calls]
    ELSE
    LET part == parts[i]
        text == get_field(part, "text", "")
        function_call == get_field(part, "function_call", PyNone)
        from_text == IF text # "" /\ is_gemma_model(prov)
                     THEN parse_tool_calls_from_text(text) ELSE <<>>
        native == IF function_call # PyNone
                  THEN <<ToolCall(function_call.name, function_call.args,
                                  default_call_id(function_call.name, function_call.args))>>
                  ELSE <<>>
    IN  google_parts_scan(prov, parts, i + 1,
            IF text # "" /\ content = "" THEN text ELSE content,
            tool_calls \o from_text \o native)

NoCandidates == "No response generated. Content may have been blocked by safety filters."

\* the response made of what the loop over the parts extracted
google_normalize(prov, resp, acc) ==
    Returned(NormalizedResponse(
        acc.content, acc.tool_calls, prov.model,
        IF resp.usage_metadata = PyNone THEN PyNone
        ELSE [prompt_tokens |-> resp.usage_metadata.prompt_token_count,
              completion_tokens |-> resp.usage_metadata.candidates_token_count,
              total_tokens |-> resp.usage_metadata.total_token_count]))

google_parse(prov, resp, streamed) ==
    IF resp = PyNone THEN Returned(NormalizedResponse(NoCandidates, <<>>, prov.model, PyNone))
    ELSE IF "candidates" \notin DOMAIN resp THEN DictAttributeError("candidates")
    ELSE IF resp.candidates = <<>>
    THEN Returned(NormalizedResponse(NoCandidates, <<>>, prov.model, PyNone))
    ELSE google_normalize(prov, resp,
             google_parts_scan(prov,
                 IF resp.candidates[1].content = PyNone THEN <<>>
                 ELSE resp.candidates[1].content.parts,
                 1, Join(streamed), <<>>))

\* what each adapter does with the vendor's response
parse_response(prov, resp, streamed) ==
    CASE prov.name = "openai" -> openai_parse(prov, resp, streamed)
      [] prov.name = "anthropic" -> anthropic_parse(prov, resp, streamed)
      [] prov.name = "google" -> google_parse(prov, resp, streamed)

----------------------------------------------------------------------------
(* The except clauses of generate_response *)

\* the error response of an except clause
ErrorResponse(prov, content) == Returned(NormalizedResponse(content, <<>>, prov.model, PyNone))

VendorTitle(prov) == IF prov.name = "openai" THEN "OpenAI" ELSE "Anthropic"

\* the message of GoogleProvider's except clause
google_error_message(error_message) ==
    IF Contains(error_message, "API_KEY_INVALID")
    THEN "Invalid Google AI API key. Please check your configuration."
    ELSE IF Contains(error_message, "429") \/ Contains(Lower(error_message), "quota")
    THEN "API quota exceeded. Please try again later."
    ELSE IF Contains(Lower(error_message), "blocked")
    THEN "Content was blocked by Google's safety filters."
    ELSE error_message

\* the clauses without the last one of the OpenAI and Anthropic adapters
except_clauses_ApiOnly(prov, e) ==
    IF prov.name = "google"
    THEN ErrorResponse(prov, "Google AI error: " \o google_error_message(e.str))
    ELSE IF IsInstance(e, "RateLimitError")
    THEN ErrorResponse(prov, "Rate limit exceeded. Please try again in a moment.")
    ELSE IF IsInstance(e, "AuthenticationError")
    THEN ErrorResponse(prov, "Authentication failed. Please check your "
                             \o VendorTitle(prov) \o " API key.")
    ELSE IF IsInstance(e, "APIError")
    THEN ErrorResponse(prov, VendorTitle(prov) \o " API error: " \o e.str)
    ELSE Raised(e)

\* what the except clauses of generate_response make of an exception
except_clauses(prov, e) ==
    IF prov.name = "google"
    THEN IF IsInstance(e, "Exception")
         THEN ErrorResponse(prov, "Google AI error: " \o google_error_message(e.str))
         ELSE Raised(e)
    ELSE IF IsInstance(e, "RateLimitError")
    THEN ErrorResponse(prov, "Rate limit exceeded. Please try again in a moment.")
    ELSE IF IsInstance(e, "AuthenticationError")
    THEN ErrorResponse(prov, "Authentication failed. Please check your "
                             \o VendorTitle(prov) \o " API key.")
    ELSE IF IsInstance(e, "APIError")
    THEN ErrorResponse(prov, VendorTitle(prov) \o " API error: " \o e.str)
    ELSE IF IsInstance(e, "Exception")
    THEN ErrorResponse(prov, "Unexpected error: " \o e.str)
    ELSE Raised(e)

----------------------------------------------------------------------------
(* Streaming: what the loop body does with one item of the stream *)

\* the text the loop body appends to streamed_content and hands to
\* stream_handler; deliver is FALSE when the body skips the item
Fragment(deliver, text) == [deliver |-> deliver, text |-> text]

stream_fragment(prov, item) ==
    CASE prov.name = "openai" ->
             IF get_field(item, "type", NoValue)
                    \in {"response.output_text.delta", "response.refusal.delta"}
                /\ get_field(item, "delta", "") # ""
             THEN Fragment(TRUE, item.delta)
             ELSE Fragment(FALSE, "")
      [] prov.name = "anthropic" -> Fragment(TRUE, item.text)
      [] prov.name = "google" ->
             IF get_field(item, "text", "") # "" THEN Fragment(TRUE, item.text)
             ELSE Fragment(FALSE, "")

----------------------------------------------------------------------------
(* LLMProvider.generate_response as a state machine: the three adapters *)

\* generate_response calls made in one behaviour
MaxGenCalls == 2

\* items of the vendor's stream read in one call
MaxFragments == 2

\* HashConfig.max_response_tokens
DefaultMaxResponseTokens == 2048

\* the adapter get_provider builds: the fields of the configuration it reads
AdapterConfig(name, model, streaming) ==
    [name |-> name, model |-> model, streaming |-> streaming,
     max_response_tokens |-> DefaultMaxResponseTokens,
     openai_text_verbosity |-> "low",
     openai_reasoning_effort |-> "low"]

AdapterConfigs ==
    { AdapterConfig(m[1], m[2], streaming) :
        m \in { <<"openai", "gpt-5-nano">>,
                <<"anthropic", "claude-3-sonnet-20240229">>,
                <<"google", "gemini-pro">>,
                <<"google", "gemma-3-27b-it">> },
        streaming \in BOOLEAN }

\* ---- what the orchestrator passes

SystemMessage == [role |-> "system", content |-> "You are Hash."]

UserMessage == [role |-> "user", content |-> "list files"]

\* the assistant message of a turn that asked for one tool call
AssistantToolCall(arguments) ==
    [role |-> "assistant", content |-> "",
     tool_calls |-> <<[id |-> "call_1", type |-> "function",
                       function |-> [name |-> "execute_shell_command",
                                     arguments |-> arguments]]>>]

ToolMessage == [role |-> "tool", content |-> "a.txt", tool_call_id |-> "call_1"]

\* the contexts: a first turn, a follow-up after a tool call, a follow-up
\* whose recorded arguments are not JSON, a message without a role, and a tool
\* cycle (user, assistant with one tool call, tool) without and with text
GenContexts ==
    << <<SystemMessage, UserMessage>>,
       <<SystemMessage, UserMessage, AssistantToolCall("{\"command\": \"ls\"}"),
         ToolMessage>>,
       <<UserMessage, AssistantToolCall("{bad"), ToolMessage>>,
       <<[content |-> "no role"]>>,
       <<UserMessage, AssistantToolCall("{\"command\": \"ls\"}"), ToolMessage>>,
       <<UserMessage,
         [AssistantToolCall("{\"command\": \"ls\"}") EXCEPT !.content = "Running ls"],
         ToolMessage>> >>

ShellToolSchema ==
    [type |-> "function",
     function |->
        [name |-> "execute_shell_command",
         description |-> "Execute a shell command",
         parameters |->
            PyDict(<< <<"type", PyStr("object")>>,
                      <<"properties",
                        PyDict(<< <<"command",
                                    PyDict(<< <<"type", PyStr("string")>> >>)>> >>)>>,
                      <<"required", PyList(<<PyStr("command")>>)>>,
                      <<"additionalProperties", PyBool(FALSE)>> >>)]]

\* tools is None or the schemas of the enabled tools
GenTools == << <<>>, <<ShellToolSchema>> >>

\* ---- what the vendors answer

Usage == [input_tokens |-> 7, output_tokens |-> 3, total_tokens |-> 10]

OpenAIResponse(output, status, incomplete_details) ==
    [error |-> PyNone, output |-> output, output_text |-> "", status |-> status,
     incomplete_details |-> incomplete_details, usage |-> Usage]

OutputMessage(text) ==
    [type |-> "message", content |-> PyList(<<[type |-> "output_text", text |-> text]>>)]

FunctionCall(arguments) ==
    [type |-> "function_call", name |-> "execute_shell_command",
     arguments |-> arguments, call_id |-> "call_1"]

OpenAIResponses ==
    << OpenAIResponse(<<OutputMessage("Hello")>>, "completed", PyNone),
       OpenAIResponse(<<FunctionCall("{\"command\": \"ls\"}")>>, "completed", PyNone),
       OpenAIResponse(<<OutputMessage("Running"), FunctionCall("{\"command\": \"ls\"}")>>,
                      "completed", PyNone),
       OpenAIResponse(<<FunctionCall("{bad")>>, "completed", PyNone),
       OpenAIResponse(<<[type |-> "reasoning", summary |-> <<[text |-> "thinking"]>>]>>,
                      "completed", PyNone),
       OpenAIResponse(<<OutputMessage("")>>, "completed", PyNone),
       OpenAIResponse(<<>>, "completed", PyNone),
       OpenAIResponse(<<>>, "incomplete", [reason |-> "max_output_tokens"]),
       [error |-> [code |-> "server_error", message |-> "boom"], output |-> <<>>,
        output_text |-> "", status |-> "failed", incomplete_details |-> PyNone,
        usage |-> PyNone],
       \* a plain dict in place of the SDK's object
       [id |-> "resp_1"] >>

AnthropicUsage == [input_tokens |-> 7, output_tokens |-> 3]

AnthropicResponse(blocks) == [content |-> blocks, usage |-> AnthropicUsage]

ToolUse ==
    [type |-> "tool_use", name |-> "execute_shell_command",
     input |-> PyDict(<< <<"command", PyStr("ls")>> >>), id |-> "toolu_1"]

AnthropicResponses ==
    << AnthropicResponse(<<[type |-> "text", text |-> "Hello"]>>),
       AnthropicResponse(<<[type |-> "text", text |-> "Let me"], ToolUse>>),
       AnthropicResponse(<<ToolUse>>),
       AnthropicResponse(<<>>),
       AnthropicResponse(<<[type |-> "thinking", thinking |-> "hm"]>>),
       AnthropicResponse(<<[type |-> "text", text |-> ""]>>),
       \* a plain dict in place of the SDK's object
       [id |-> "msg_1"] >>

GoogleUsage ==
    [prompt_token_count |-> 7, candidates_token_count |-> 3, total_token_count |-> 10]

Part(text, function_call) == [text |-> text, function_call |-> function_call]

\* a chunk or a response; text is the property of the SDK that joins the texts
GoogleResponse(candidates, text) ==
    [candidates |-> candidates, usage_metadata |-> GoogleUsage, text |-> text]

Candidate(parts) == [content |-> [parts |-> parts]]

GoogleFunctionCall ==
    [name |-> "execute_shell_command", args |-> PyDict(<< <<"command", PyStr("ls")>> >>)]

GemmaToolUse ==
    CodeFence \o "json\n{\"tool_uses\": [{\"tool_name\": \"execute_shell_command\", "
    \o "\"arguments\": {\"command\": \"ls\"}}]}\n" \o CodeFence

GoogleResponses ==
    << GoogleResponse(<<Candidate(<<Part("Hello", PyNone)>>)>>, "Hello"),
       GoogleResponse(<<Candidate(<<Part("Hel", PyNone), Part("lo", PyNone)>>)>>, "Hello"),
       GoogleResponse(<<Candidate(<<Part("", GoogleFunctionCall)>>)>>, ""),
       GoogleResponse(<<Candidate(<<Part(GemmaToolUse, PyNone)>>)>>, GemmaToolUse),
       \* no candidate: the prompt was blocked
       GoogleResponse(<<>>, ""),
       \* a candidate without content: the answer was blocked or cut
       GoogleResponse(<<[content |-> PyNone]>>, ""),
       GoogleResponse(<<Candidate(<<>>)>>, ""),
       GoogleResponse(<<Candidate(<<Part("", PyNone)>>)>>, ""),
       \* a plain dict in place of the SDK's object
       [id |-> "x"],
       \* the same function called twice with the same arguments
       GoogleResponse(<<Candidate(<<Part("", GoogleFunctionCall),
                                    Part("", GoogleFunctionCall)>>)>>, "") >>

VendorResponses(prov) ==
    CASE prov.name = "openai" -> OpenAIResponses
      [] prov.name = "anthropic" -> AnthropicResponses
      [] prov.name = "google" -> GoogleResponses

\* ---- what the vendors stream

OpenAIEvents ==
    << [type |-> "response.output_text.delta", delta |-> "Hel"],
       [type |-> "response.output_text.delta", delta |-> ""],
       [type |-> "response.created"] >>

AnthropicTexts == << [text |-> "Hel"], [text |-> ""] >>

StreamItems(prov) ==
    CASE prov.name = "openai" -> OpenAIEvents
      [] prov.name = "anthropic" -> AnthropicTexts
      [] prov.name = "google" -> GoogleResponses

\* ---- what fails

\* the exceptions a remote call raises
RemoteExceptions(prov) ==
    IF prov.name = "google"
    THEN { Exc("ClientError", "400 INVALID_ARGUMENT. API_KEY_INVALID"),
           Exc("ClientError", "429 RESOURCE_EXHAUSTED. Quota exceeded"),
           Exc("ClientError", "Content blocked"),
           Exc("ServerError", "503 UNAVAILABLE") }
    ELSE { Exc("RateLimitError", "Error code: 429"),
           Exc("AuthenticationError", "Error code: 401"),
           Exc("APIConnectionError", "Connection error."),
           Exc("RuntimeError", "Event loop is closed") }

\* the exception a stream_handler call raises
SinkException == Exc("BrokenPipeError", "[Errno 32] Broken pipe")

\* ---- the steps of generate_response

\* one generate_response call: the context and the tools it was called with,
\* and the request it built once the formatting is over (PyNone if it raised)
CallRecord(args, built, req) ==
    [messages |-> args.messages, tools |-> args.tools, built |-> built, request |-> req]

\* self.config.streaming and stream_handler
Streaming == provider.streaming /\ gen_arguments.stream_handler

\* the orchestrator awaits provider.generate_response(messages, tools, stream_handler)
GenBegin ==
    /\ gen_pc \in {"idle", "done"}
    /\ gen_calls < MaxGenCalls
    /\ \E c \in DOMAIN GenContexts, t \in DOMAIN GenTools, handler \in BOOLEAN :
           gen_arguments' = [messages |-> GenContexts[c], tools |-> GenTools[t],
                             stream_handler |-> handler]
    /\ provider' = config
    /\ request' = PyNone
    /\ vendor_response' = PyNone
    /\ streamed_content' = <<>>
    /\ sink' = <<>>
    /\ received' = <<>>
    /\ llm_response' = NoResponse
    /\ gen_exception' = PyNone
    /\ gen_raised' = PyNone
    /\ gen_pc' = "format"
    /\ gen_calls' = gen_calls + 1
    /\ gen_history' = Append(gen_history, CallRecord(gen_arguments', FALSE, PyNone))
    /\ UNCHANGED <<chatVars, queryVars, toolVars, fsVars>>

\* the try block up to the remote call: the request is built; what the
\* adapter wrote into the caller's list in doing so is in the list afterwards
GenFormat ==
    /\ gen_pc = "format"
    /\ \E built \in {format_request(provider, gen_arguments)} :
       /\ IF built.kind = "raise"
          THEN /\ gen_exception' = built.v
               /\ gen_pc' = "except"
               /\ UNCHANGED request
          ELSE /\ request' = built.v
               /\ gen_pc' = "create"
               /\ UNCHANGED gen_exception
       /\ gen_history' = [gen_history EXCEPT ![Len(gen_history)] =
                             [@ EXCEPT !.built = TRUE, !.request = request']]
    /\ gen_arguments' = [gen_arguments EXCEPT
                            !.messages = messages_after(provider, gen_arguments)]
    /\ UNCHANGED <<chatVars, queryVars, toolVars, fsVars, provider, vendor_response,
                   streamed_content, sink, llm_response, gen_raised, received, gen_calls>>

\* the remote call: create(...) answers or raises, stream(...) opens or raises
GenCreate ==
    /\ gen_pc = "create"
    /\ \/ /\ \E e \in RemoteExceptions(provider) : gen_exception' = e
          /\ gen_pc' = "except"
          /\ UNCHANGED vendor_response
       \/ /\ ~Streaming
          /\ \E i \in DOMAIN VendorResponses(provider) :
                 vendor_response' = VendorResponses(provider)[i]
          /\ gen_pc' = "parse"
          /\ UNCHANGED gen_exception
       \/ /\ Streaming
          /\ gen_pc' = "stream"
          /\ UNCHANGED <<vendor_response, gen_exception>>
    /\ UNCHANGED <<chatVars, queryVars, toolVars, fsVars, provider, gen_arguments, request,
                   streamed_content, sink, llm_response, gen_raised, received, gen_calls,
                   gen_history>>

\* one iteration of the streaming loop: the body appends the fragment and
\* calls stream_handler, which returns or raises
GenStreamEvent ==
    /\ gen_pc = "stream"
    /\ Len(received) < MaxFragments
    /\ \E i \in DOMAIN StreamItems(provider), handled \in BOOLEAN :
       \E item \in {StreamItems(provider)[i]} :
       \E fragment \in {stream_fragment(provider, item)} :
           /\ received' = Append(received, item)
           /\ vendor_response' = IF provider.name = "google" THEN item
                                 ELSE vendor_response
           /\ IF ~fragment.deliver
              THEN /\ handled
                   /\ UNCHANGED <<streamed_content, sink, gen_exception, gen_pc>>
              ELSE /\ streamed_content' = Append(streamed_content, fragment.text)
                   /\ sink' = Append(sink, fragment.text)
                   /\ IF handled
                      THEN UNCHANGED <<gen_exception, gen_pc>>
                      ELSE /\ gen_exception' = SinkException
                           /\ gen_pc' = "except"
    /\ UNCHANGED <<chatVars, queryVars, toolVars, fsVars, provider, gen_arguments, request,
                   llm_response, gen_raised, gen_calls,
                   gen_history>>

\* the vendor's stream breaks
GenStreamFail ==
    /\ gen_pc = "stream"
    /\ \E e \in RemoteExceptions(provider) : gen_exception' = e
    /\ gen_pc' = "except"
    /\ UNCHANGED <<chatVars, queryVars, toolVars, fsVars, provider, gen_arguments, request,
                   vendor_response, streamed_content, sink, llm_response, gen_raised,
                   received, gen_calls,
                   gen_history>>

\* the stream is exhausted: OpenAI and Anthropic hand out the final response,
\* Google's response is the last chunk
GenStreamEnd ==
    /\ gen_pc = "stream"
    /\ IF provider.name = "google"
       THEN UNCHANGED vendor_response
       ELSE \E i \in DOMAIN VendorResponses(provider) :
                vendor_response' = VendorResponses(provider)[i]
    /\ gen_pc' = "parse"
    /\ UNCHANGED <<chatVars, queryVars, toolVars, fsVars, provider, gen_arguments, request,
                   streamed_content, sink, llm_response, gen_exception, gen_raised,
                   received, gen_calls,
                   gen_history>>

\* the rest of the try block: the response is normalized and returned
GenParse ==
    /\ gen_pc = "parse"
    /\ \E parsed \in {parse_response(provider, vendor_response, streamed_content)} :
       IF parsed.kind = "raise"
       THEN /\ gen_exception' = parsed.v
            /\ gen_pc' = "except"
            /\ UNCHANGED llm_response
       ELSE /\ llm_response' = parsed.v
            /\ gen_pc' = "done"
            /\ UNCHANGED gen_exception
    /\ UNCHANGED <<chatVars, queryVars, toolVars, fsVars, provider, gen_arguments, request,
                   vendor_response, streamed_content, sink, gen_raised, received,
                   gen_calls,
                   gen_history>>

\* the except clauses: an error response is returned, or the exception leaves
GenExcept ==
    /\ gen_pc = "except"
    /\ \E handled \in {except_clauses(provider, gen_exception)} :
       IF handled.kind = "raise"
       THEN /\ gen_raised' = handled.v
            /\ UNCHANGED llm_response
       ELSE /\ llm_response' = handled.v
            /\ UNCHANGED gen_raised
    /\ gen_pc' = "done"
    /\ UNCHANGED <<chatVars, queryVars, toolVars, fsVars, provider, gen_arguments, request,
                   vendor_response, streamed_content, sink, gen_exception, received,
                   gen_calls,
                   gen_history>>

AdapterInit ==
    /\ config \in AdapterConfigs
    /\ ChatIdle
    /\ QueryIdle
    /\ ToolIdle
    /\ AdapterIdle

AdapterNext ==
    \/ GenBegin
    \/ GenFormat
    \/ GenCreate
    \/ GenStreamEvent
    \/ GenStreamFail
    \/ GenStreamEnd
    \/ GenParse
    \/ GenExcept

SpecAdapter == AdapterInit /\ [][AdapterNext]_vars

----------------------------------------------------------------------------
(* Properties of generate_response *)

\* generate_response was awaited and is over
GenReturned == gen_pc = "done"

\* how the except clauses start the content of an error response
ExplanationPrefixes ==
    {"Rate limit exceeded.", "Authentication failed.", "OpenAI API error: ",
     "Anthropic API error: ", "Google AI error: ", "Unexpected error: "}

\* C9: for each of the three adapters generate_response never raises: when an
\* exception was raised in its try block (by the remote call, while the request
\* was built, while streaming or while the response was parsed), the call
\* returns a response whose content is a non-empty explanation carrying the
\* adapter's wording and whose tool_calls is empty.
C9_GenerateNeverRaises ==
    GenReturned =>
        /\ gen_raised = PyNone
        /\ llm_response # NoResponse
        /\ gen_exception # PyNone =>
               /\ llm_response.tool_calls = <<>>
               /\ \E prefix \in ExplanationPrefixes :
                      /\ StartsWith(llm_response.content, prefix)
                      /\ Len(llm_response.content) > 0

\* a call that ended after an exception that is none of the vendor's errors
C9_Witness ==
    /\ GenReturned
    /\ gen_exception # PyNone
    /\ gen_exception.class \in {"KeyError", "JSONDecodeError", "AttributeError",
                                "BrokenPipeError", "RuntimeError"}
    /\ llm_response.tool_calls = <<>>
    /\ llm_response.content # ""

\* C10: the response generate_response returns never has an empty content
\* together with an empty tool_calls list.
C10_NeverEmptyResponse ==
    (GenReturned /\ gen_raised = PyNone) =>
        ~(llm_response.content = "" /\ llm_response.tool_calls = <<>>)

\* ---- streaming

\* the text an item of the vendor's stream carries: the delta of an OpenAI
\* text or refusal event, the text of Anthropic's text_stream, the text of a
\* Google chunk; "" when it carries none
FragmentText(item) ==
    CASE provider.name = "openai" ->
             IF get_field(item, "type", NoValue)
                    \in {"response.output_text.delta", "response.refusal.delta"}
             THEN get_field(item, "delta", "") ELSE ""
      [] provider.name = "anthropic" -> item.text
      [] provider.name = "google" -> get_field(item, "text", "")

RECURSIVE NonEmptyTexts(_, _)
NonEmptyTexts(items, i) ==
    IF i > Len(items) THEN <<>>
    ELSE (IF FragmentText(items[i]) # "" THEN <<FragmentText(items[i])>> ELSE <<>>)
         \o NonEmptyTexts(items, i + 1)

\* C11: with streaming enabled and a sink supplied, at every moment of a
\* generate call and after it the sink has been invoked exactly once for each
\* non-empty text fragment received so far from the vendor, in emission order,
\* and never with an empty fragment; the sink is not invoked after the call
\* returned.
C11_SinkOncePerNonEmptyFragment ==
    /\ sink = NonEmptyTexts(received, 1)
    /\ \A i \in DOMAIN sink : sink[i] # ""

\* the text the vendor's final response object carries itself: the text of the
\* output items (or output_text) for OpenAI, of the text blocks for Anthropic,
\* of the last chunk for Google
FinalText ==
    CASE provider.name = "openai" ->
             Or(Join(openai_output_scan(get_field(vendor_response, "output", <<>>), 1,
                                        Extracted(<<>>, <<>>, <<>>)).content_parts),
                get_field(vendor_response, "output_text", ""))
      [] provider.name = "anthropic" ->
             anthropic_blocks_scan(get_field(vendor_response, "content", <<>>),
                                   1, "", <<>>).content
      [] provider.name = "google" -> get_field(vendor_response, "text", "")

\* the call returned what it made of the vendor's final response, and that
\* response reports no error
FinalResponseParsed ==
    /\ GenReturned
    /\ gen_exception = PyNone
    /\ vendor_response # PyNone
    /\ get_field(vendor_response, "error", PyNone) = PyNone

\* the sink received at least one non-empty fragment
SinkGotText == \E i \in DOMAIN sink : sink[i] # ""

\* C12: when the sink received at least one non-empty fragment during a
\* generate call, the returned content is non-empty; and when the vendor's
\* final response carries no text of its own, the returned content is the
\* concatenation of the streamed fragments in order.
C12_StreamedContentReturned ==
    (GenReturned /\ SinkGotText) =>
        /\ llm_response.content # ""
        /\ (FinalResponseParsed /\ FinalText = "") =>
               llm_response.content = Join(sink)

\* ---- translating a tool cycle

\* a call-site or a result-site of a vendor structure: what links it to its
\* counterpart and what it carries (decoded arguments, tool output)
Site(kind, link, payload) == [kind |-> kind, link |-> link, payload |-> payload]

\* the sites among the input items of an OpenAI request
RECURSIVE openai_sites(_, _)
openai_sites(items, i) ==
    IF i > Len(items) THEN <<>>
    ELSE (CASE items[i].type = "function_call" ->
                   <<Site("call", items[i].call_id, json_loads(items[i].arguments).v)>>
            [] items[i].type = "function_call_output" ->
                   <<Site("result", items[i].call_id, PyStr(items[i].output))>>
            [] OTHER -> <<>>)
         \o openai_sites(items, i + 1)

\* the sites among the content blocks of Anthropic messages
RECURSIVE anthropic_sites(_, _)
anthropic_sites(blocks, i) ==
    IF i > Len(blocks) THEN <<>>
    ELSE (CASE blocks[i].type = "tool_use" ->
                   <<Site("call", blocks[i].id, blocks[i].input)>>
            [] blocks[i].type = "tool_result" ->
                   <<Site("result", blocks[i].tool_use_id, PyStr(blocks[i].content))>>
            [] OTHER -> <<>>)
         \o anthropic_sites(blocks, i + 1)

\* the first position at or after pos where p starts in s; Len(s) if none
FindAt(s, p, pos) ==
    LET found == { i \in pos..(Len(s) - 1) : StartsAt(s, i, p) }
    IN  IF found = {} THEN Len(s)
        ELSE CHOOSE i \in found : \A j \in found : i <= j

ToolResultPrefix == "Tool Result ("

\* the sites of one part of a Google content: a function_call or
\* function_response part, or (Gemma models) the text forms of them: a fenced
\* tool_uses block said by the model, a "Tool Result (name):" text of the user
google_part_sites(role, part) ==
    LET text == get_field(part, "text", "")
        calls == parse_tool_calls_from_text(text)
        close == FindAt(text, "):\n", 0)
    IN
    IF "function_call" \in DOMAIN part
    THEN <<Site("call", part.function_call.name, part.function_call.args)>>
    ELSE IF "function_response" \in DOMAIN part
    THEN <<Site("result", part.function_response.name,
                PyStr(part.function_response.response.content))>>
    ELSE IF role = "model"
    THEN [j \in DOMAIN calls |-> Site("call", calls[j].name, calls[j].arguments)]
    ELSE IF StartsWith(text, ToolResultPrefix) /\ close < Len(text)
    THEN <<Site("result", Slice(text, Len(ToolResultPrefix), close),
                PyStr(Slice(text, close + 3, Len(text))))>>
    ELSE <<>>

RECURSIVE google_parts_sites(_, _, _)
google_parts_sites(role, parts, i) ==
    IF i > Len(parts) THEN <<>>
    ELSE google_part_sites(role, parts[i]) \o google_parts_sites(role, parts, i + 1)

RECURSIVE google_sites(_, _)
google_sites(contents, i) ==
    IF i > Len(contents) THEN <<>>
    ELSE google_parts_sites(contents[i].role, contents[i].parts, 1)
         \o google_sites(contents, i + 1)

\* the call-sites and result-sites of the request, in its order. Anthropic:
\* the first message is the user's text, the sites are in the blocks of the
\* second and third
VendorSites ==
    CASE provider.name = "openai" -> openai_sites(request.input, 1)
      [] provider.name = "anthropic" ->
             IF Len(request.messages) = 3
             THEN anthropic_sites(request.messages[2].content
                                  \o request.messages[3].content, 1)
             ELSE <<>>
      [] provider.name = "google" -> google_sites(request.contents, 1)

\* one user message, one assistant message with exactly one tool call whose
\* arguments decode, one tool message with the matching tool_call_id
IsToolCycle(msgs) ==
    /\ Len(msgs) = 3
    /\ RoleOf(msgs[1]) = "user"
    /\ RoleOf(msgs[2]) = "assistant"
    /\ RoleOf(msgs[3]) = "tool"
    /\ Len(get_field(msgs[2], "tool_calls", <<>>)) = 1
    /\ msgs[3].tool_call_id = msgs[2].tool_calls[1].id
    /\ json_loads(msgs[2].tool_calls[1].function.arguments).kind = "return"

\* what links the call to its result: the call id, or for Google the name
CycleLink ==
    IF provider.name = "google" THEN gen_arguments.messages[2].tool_calls[1].function.name
    ELSE gen_arguments.messages[2].tool_calls[1].id

ThisCall == gen_history[Len(gen_history)]

\* C14: a generate call leaves the caller's context unchanged: at every
\* moment of the call and after it the list holds the messages it was called
\* with, in the same order and with the same field values; and two calls with
\* the same context and no tools build the same vendor request.
C14_ContextUnchanged ==
    /\ gen_history # <<>> => gen_arguments.messages = ThisCall.messages
    /\ \A i, j \in DOMAIN gen_history :
           ( /\ gen_history[i].built /\ gen_history[j].built
             /\ gen_history[i].messages = gen_history[j].messages
             /\ gen_history[i].tools = <<>> /\ gen_history[j].tools = <<>> )
           => gen_history[i].request = gen_history[j].request

\* two finished calls with the same tool-cycle context and no tools, after
\* which the context is still the one passed
C14_Witness ==
    /\ GenReturned
    /\ Len(gen_history) = 2
    /\ gen_history[1].messages = gen_history[2].messages
    /\ IsToolCycle(gen_history[1].messages)
    /\ gen_history[1].tools = <<>> /\ gen_history[2].tools = <<>>
    /\ gen_history[1].request # PyNone
    /\ gen_history[1].request = gen_history[2].request
    /\ gen_arguments.messages = gen_history[1].messages

----------------------------------------------------------------------------
(* Properties of the orchestrator and its history *)

\* the step that stores the user's message: the row appended holds the
\* running session, the role "user" and the message of this chat call
UserMessageStored ==
    /\ Len(messages') = Len(messages) + 1
    /\ SubSeq(messages', 1, Len(messages)) = messages
    /\ messages'[Len(messages')].session_id = current_session_id
    /\ messages'[Len(messages')].role = "user"
    /\ messages'[Len(messages')].content = message

\* C15: with history enabled, in every chat turn the user's message is
\* appended to the session's messages before the first generate call begins:
\* chat gets past its add_message step only by appending the row, the first
\* generate call begins only after that step, and nothing removes or changes
\* the row between the step and the end of the call, so that the row is
\* stored when the call fails.
C15_UserMessageStoredFirst ==
    [][ /\ (config.history_enabled /\ pc = "add_user" /\ pc' = "context")
               => UserMessageStored
        /\ (pc' = "context" /\ pc # "context") => pc = "add_user"
        /\ (pc' = "generate" /\ pc # "generate") => pc = "context"
        /\ (generate_calls = <<>> /\ generate_calls' # <<>>) => pc = "generate"
        /\ pc \in {"context", "generate"} => messages' = messages
        /\ (config.history_enabled /\ pc = "generate" /\ generate_calls = <<>>) =>
               /\ messages # <<>>
               /\ LastRow.session_id = current_session_id
               /\ LastRow.role = "user"
               /\ LastRow.content = message
      ]_vars

\* a turn whose first generate call failed, the user's message stored
C15_Witness ==
    /\ ChatReturned
    /\ config.history_enabled
    /\ exception # NoValue
    /\ Len(generate_calls) = 1
    /\ responses = <<>>
    /\ messages # <<>>
    /\ LastRow.role = "user"
    /\ LastRow.content = message
    /\ LastRow.session_id = current_session_id

\* the context handed to the first generate call of the turn
FirstContext == generate_calls[1].messages

\* the messages of the running session stored before this turn's user row,
\* in the order they were appended
RECURSIVE EarlierMessages(_)
EarlierMessages(i) ==
    IF i = 0 THEN <<>>
    ELSE EarlierMessages(i - 1)
         \o (IF messages[i].session_id = current_session_id
             THEN <<[role |-> messages[i].role, content |-> messages[i].content]>>
             ELSE <<>>)

\* the rowid of the user row of the running turn: the last user row of the
\* running session (0 if there is none)
TurnUserRow ==
    LET rows == {i \in SessionRowIds(current_session_id) : messages[i].role = "user"}
    IN  IF rows = {} THEN 0 ELSE CHOOSE i \in rows : \A j \in rows : j <= i

\* the last n elements of a sequence
LastN(seq, n) == SubSeq(seq, Len(seq) - n + 1, Len(seq))

\* C16: with history enabled or disabled, the context handed to the first
\* generate call of a chat invocation is the system prompt, then a trailing
\* window of at most 20 earlier messages of the session in chronological
\* order, then the new user message as its last message.
C16_FirstContextShape ==
    generate_calls # <<>> =>
        /\ Len(FirstContext) >= 2
        /\ Len(FirstContext) <= HistoryWindow + 2
        /\ FirstContext[1] = [role |-> "system", content |-> SystemPrompt]
        /\ FirstContext[Len(FirstContext)] = [role |-> "user", content |-> message]
        /\ config.history_enabled =>
               LET earlier == EarlierMessages(TurnUserRow - 1)
                   window == SubSeq(FirstContext, 2, Len(FirstContext) - 1)
               IN  /\ Len(window) <= Len(earlier)
                   /\ window = LastN(earlier, Len(window))

----------------------------------------------------------------------------
(* ConversationHistory used directly: sessions, messages, recent messages *)

MaxSessions == 2
MaxMessages == 3
MaxLimit == 2

\* the content of the n-th message stored: every message is told apart
MessageText(n) == "m" \o IntToStr(n)

historyLocals == <<config, current_session_id, pc, turns, turnLocals, retVars>>

HistoryInit ==
    /\ config \in [history_enabled : {TRUE}, require_confirmation : {FALSE}]
    /\ ChatIdle
    /\ QueryIdle
    /\ ToolIdle
    /\ AdapterIdle

\* history.start_session()
HistoryStartSession ==
    /\ Cardinality(DOMAIN sessions) < MaxSessions
    /\ \E t \in CURRENT_TIMESTAMP :
          sessions' = start_session_rows(t) /\ now' = t
    /\ UNCHANGED <<messages, historyLocals, nonChatVars>>

\* history.add_message(session_id, role, content)
HistoryAddMessage ==
    /\ Len(messages) < MaxMessages
    /\ \E s \in DOMAIN sessions, role \in {"user", "assistant"}, t \in CURRENT_TIMESTAMP :
          /\ messages' = add_message_rows(s, role, MessageText(Len(messages) + 1), t)
          /\ sessions' = end_session_rows(s, t)
          /\ now' = t
    /\ UNCHANGED <<historyLocals, nonChatVars>>

\* history.get_recent_messages(session_id, limit)
HistoryGetRecent ==
    /\ \E s \in DOMAIN sessions, limit \in 1..MaxLimit :
          /\ \E r \in get_recent_messages(s, limit) : recent' = r
          /\ recent_call' = [session_id |-> s, limit |-> limit, rows |-> Len(messages)]
    /\ UNCHANGED <<chatVars, toolVars, fsVars, adapterVars>>

HistoryNext ==
    \/ HistoryStartSession
    \/ HistoryAddMessage
    \/ HistoryGetRecent

SpecHistory == HistoryInit /\ [][HistoryNext]_vars

\* the first i rows of the table that belong to a session, in the order
\* they were appended, projected on role and content
RECURSIVE SessionMessages(_, _)
SessionMessages(session_id, i) ==
    IF i = 0 THEN <<>>
    ELSE SessionMessages(session_id, i - 1)
         \o (IF messages[i].session_id = session_id
             THEN <<[role |-> messages[i].role, content |-> messages[i].content]>>
             ELSE <<>>)

\* C17: get_recent_messages(session_id, limit) on a session holding n
\* messages returns exactly its last min(limit, n) messages, in the order
\* they were appended, also when several were stored in the same second,
\* and never a message of another session.
C17_RecentMessagesInOrder ==
    recent_call # NoCall =>
        LET stored == SessionMessages(recent_call.session_id, recent_call.rows)
        IN  recent = LastN(stored, Min(recent_call.limit, Len(stored)))

\* the part of C17 that holds: only messages of the session asked for, and
\* as many as min(limit, n)
RecentOfSessionOnly ==
    recent_call # NoCall =>
        LET stored == SessionMessages(recent_call.session_id, recent_call.rows)
        IN  /\ Len(recent) = Min(recent_call.limit, Len(stored))
            /\ \A i \in DOMAIN recent : \E j \in DOMAIN stored : recent[i] = stored[j]

----------------------------------------------------------------------------
(* LLMHandler.chat on a session that already holds earlier turns *)

EarlierTurns == 10

\* the rows 2 * n turns of one session left in the table, all of them
\* stored within the second the clock shows
StoredTurns(n) ==
    [i \in 1..(2 * n) |->
        IF i % 2 = 1 THEN Row(1, "user", "earlier question", 0)
                     ELSE Row(1, "assistant", "earlier answer", 0)]

LongSessionInit ==
    /\ config \in [history_enabled : {TRUE}, require_confirmation : BOOLEAN]
    /\ current_session_id = 1
    /\ sessions = <<[updated_at |-> 0]>>
    /\ messages = StoredTurns(EarlierTurns)
    /\ now = 0
    /\ pc = "idle"
    /\ turns = 0
    /\ message = NoValue
    /\ context_messages = <<>>
    /\ response = NoResponse
    /\ tool_results = <<>>
    /\ idx = 0
    /\ ret = NoValue
    /\ raised = NoValue
    /\ exception = NoValue
    /\ generate_calls = <<>>
    /\ responses = <<>>
    /\ events = <<>>
    /\ QueryIdle
    /\ ToolIdle
    /\ AdapterIdle

SpecLongSession == LongSessionInit /\ [][ChatNext]_vars

\* the user row of the turn before the one whose user row is t: the last
\* user row of the running session before t (0 if there is none)
PreviousUserRow(t) ==
    LET users == {i \in SessionRowIds(current_session_id) :
                     i < t /\ messages[i].role = "user"}
    IN  IF users = {} THEN 0 ELSE CHOOSE u \in users : \A v \in users : v <= u

\* the context of the turn's first generate call holds the messages the
\* turn before stored in the same session: its rows from its user row up
\* to the user row of the running turn
EarlierTurnInContext ==
    generate_calls # <<>> =>
        \A t \in {TurnUserRow} : \A u \in {PreviousUserRow(t)} :
            u # 0 =>
                \A r \in {i \in SessionRowIds(current_session_id) : u <= i /\ i < t} :
                    \E i \in DOMAIN FirstContext :
                        FirstContext[i] = [role |-> messages[r].role,
                                           content |-> messages[r].content]

\* a session row is inserted only by a chat that finds no session id, which
\* takes the new id
CreatedByFirstChat ==
    DOMAIN sessions' # DOMAIN sessions =>
        /\ pc = "start_session"
        /\ current_session_id = 0
        /\ DOMAIN sessions' = DOMAIN sessions \cup {current_session_id'}
        /\ current_session_id' \notin DOMAIN sessions

\* a session id, once set, is kept by every step of chat; only
\* clear_session, between turns, resets it
KeptUntilCleared ==
    (current_session_id # 0 /\ current_session_id' # current_session_id) =>
        /\ pc = "idle" /\ pc' = "idle"
        /\ current_session_id' = 0

\* clear_session leaves the messages and every session stored, writing only
\* the timestamp of the session it ends
ClearOnlyTouches ==
    (current_session_id # 0 /\ current_session_id' = 0) =>
        /\ messages' = messages
        /\ DOMAIN sessions' = DOMAIN sessions
        /\ \A s \in DOMAIN sessions \ {current_session_id} : sessions'[s] = sessions[s]

\* C18: with history enabled, a session is created only by the first chat
\* after construction or after clear_session; consecutive chats with no
\* clear in between use the same session id and the later turn's context
\* includes the earlier turn's user and assistant messages; clear_session
\* only touches the session's timestamp and resets the handler's session id.
C18_SessionLifecycle ==
    [][config.history_enabled =>
           /\ CreatedByFirstChat
           /\ KeptUntilCleared
           /\ ClearOnlyTouches
           /\ EarlierTurnInContext']_vars

\* the part of C18 about the session id and the stored rows
SessionIdLifecycle ==
    [][config.history_enabled =>
           /\ CreatedByFirstChat
           /\ KeptUntilCleared
           /\ ClearOnlyTouches]_vars

----------------------------------------------------------------------------
(* Properties of the tools as a family *)

\* C19: for every tool, every arguments payload and every configuration,
\* execute returns a string and raises no exception: failures of the security
\* gate, of tokenizing the command or of I/O become descriptive strings.
C19_ExecuteReturnsString ==
    tool_pc = "done" =>
        /\ tool_raised = NoValue
        /\ tool_result # NoValue

\* execute called with a configuration that carries allow_shell_operators
\* and a command that is a string or absent
DeclaredShellCall ==
    /\ HasAttr(config, "allow_shell_operators")
    /\ ArgGet(tool_arguments, "command").type \in {"str", "None"}

\* the tools whose requires_confirmation() returns False
NoConfirmationTools == {"web_search", "analyze_code"}

\* C20: a tool call to web search or to code analysis is executed without
\* soliciting the user's approval, whatever require_confirmation is:
\* approval is solicited only for tools whose confirmation policy requires it.
C20_ReadOnlyToolsNotConfirmed ==
    /\ \A p \in EventsOf("confirm") :
           FirstToolCalls[events[p].i].name \notin NoConfirmationTools
    /\ \A q \in EventsOf("result") :
           FirstToolCalls[events[q].i].name \in NoConfirmationTools =>
               \E p \in EventsOf("execute") : events[p].i = events[q].i

----------------------------------------------------------------------------
(* Properties of a whole turn *)

\* the messages of a session alternate user, assistant and end with an
\* assistant message
Alternates(stored) ==
    /\ Len(stored) % 2 = 0
    /\ \A i \in DOMAIN stored :
           stored[i].role = IF i % 2 = 1 THEN "user" ELSE "assistant"

\* C21: no failure path of a turn leaves the history half-written: whenever
\* chat has returned, normally or with an "LLM Error" string, the history
\* holds for that turn both its user message and an assistant message or
\* neither, so the stored messages of a session alternate user, assistant.
C21_HistoryNotHalfWritten ==
    ChatReturned =>
        \A s \in DOMAIN sessions : Alternates(SessionMessages(s, Len(messages)))

\* the call at position i of the first response was declined by the user
Declined(i) == \E p \in EventsOf("decline") : events[p].i = i

\* the results a call leaves when its executor is looked up and run
ExecutionResults ==
    ToolOutputs \cup {"Error executing tool: " \o m : m \in ToolErrMsgs \cup {AttributeErrorMsg}}

\* C22: if looking up or running the executor of a tool call raises (a tool
\* name that is not in the registry included), that call's result is the
\* string "Error executing tool: <message>" under the call's id, the
\* remaining calls are still processed and the turn continues to the
\* follow-up provider call instead of ending with "LLM Error".
C22_ToolErrorBecomesResult ==
    /\ pc \in {"tool_execute", "tool_await"} => exception = NoValue
    /\ \A q \in EventsOf("result") : \A i \in {events[q].i} :
           /\ i \in DOMAIN tool_results
           /\ tool_results[i].tool_call_id = FirstToolCalls[i].call_id
           /\ ~Declined(i) => tool_results[i].output \in ExecutionResults
           /\ (~Declined(i) /\ FirstToolCalls[i].name \notin ToolRegistry) =>
                  /\ tool_results[i].output = "Error executing tool: " \o AttributeErrorMsg
                  /\ \A p \in EventsOf("execute") : events[p].i # i
           /\ (q = Len(events) /\ exception = NoValue) =>
                  /\ idx = i + 1
                  /\ pc \in IF i < Len(FirstToolCalls)
                            THEN {"tool_confirm", "tool_execute"} ELSE {"followup"}
           /\ (ChatReturned /\ exception = NoValue) =>
                  /\ Len(generate_calls) = 2
                  /\ Len(tool_results) = Len(FirstToolCalls)
                  /\ generate_calls[2].messages[Len(context_messages) + 1 + i] =
                        [role |-> "tool", content |-> tool_results[i].output,
                         tool_call_id |-> FirstToolCalls[i].call_id]

\* the first call named no registered tool, the second one ran and raised,
\* and the turn finished with the follow-up response
C22_Witness ==
    /\ ChatReturned
    /\ exception = NoValue
    /\ Len(FirstToolCalls) = 2
    /\ FirstToolCalls[1].name = "no_such_tool"
    /\ tool_results[1].output = "Error executing tool: " \o AttributeErrorMsg
    /\ FirstToolCalls[2].name = "web_search"
    /\ tool_results[2].output = "Error executing tool: boom"
    /\ Len(generate_calls) = 2

\* the ids of the tool calls the assistant message m carries
CarriedIds(m) ==
    IF m.role = "assistant" /\ "tool_calls" \in DOMAIN m
    THEN {m.tool_calls[c].id : c \in DOMAIN m.tool_calls}
    ELSE {}

\* every tool message answers a tool call of an assistant message before it
WellFormed(ctx) ==
    \A k \in DOMAIN ctx :
        ctx[k].role = "tool" =>
            \E j \in 1..(k - 1) : ctx[k].tool_call_id \in CarriedIds(ctx[j])

\* C23: every context passed to generate is well-formed: each tool message's
\* tool_call_id is the id of a tool call carried by an assistant message
\* earlier in the same context. The follow-up context is the first context,
\* then one assistant message carrying all tool calls of the first response
\* in emission order, then exactly one tool message per call, in that order.
C23_ContextsWellFormed ==
    /\ \A g \in DOMAIN generate_calls : WellFormed(generate_calls[g].messages)
    /\ Len(generate_calls) = 2 =>
           \A first \in {generate_calls[1].messages} :
           \A followup \in {generate_calls[2].messages} :
              /\ Len(followup) = Len(first) + 1 + Len(FirstToolCalls)
              /\ SubSeq(followup, 1, Len(first)) = first
              /\ followup[Len(first) + 1] =
                    [role |-> "assistant", content |-> FirstResponse.content,
                     tool_calls |-> [i \in DOMAIN FirstToolCalls |->
                         [id |-> FirstToolCalls[i].call_id,
                          type |-> "function",
                          function |-> [name |-> FirstToolCalls[i].name,
                                        arguments |-> FirstToolCalls[i].arguments]]]]
              /\ \A i \in DOMAIN FirstToolCalls :
                     /\ followup[Len(first) + 1 + i].role = "tool"
                     /\ followup[Len(first) + 1 + i].tool_call_id = FirstToolCalls[i].call_id

\* a follow-up call was made for two tool calls with different ids, on top
\* of a first context that holds an earlier turn
C23_Witness ==
    /\ Len(generate_calls) = 2
    /\ Len(FirstToolCalls) = 2
    /\ FirstToolCalls[1].call_id # FirstToolCalls[2].call_id
    /\ Len(generate_calls[1].messages) >= 3

----------------------------------------------------------------------------
(* Properties of the normalized response *)

EmittedItems ==
    CASE provider.name = "openai" -> get_field(vendor_response, "output", <<>>)
      [] provider.name = "anthropic" -> get_field(vendor_response, "content", <<>>)
      [] provider.name = "google" ->
             IF get_field(vendor_response, "candidates", <<>>) = <<>> THEN <<>>
             ELSE IF vendor_response.candidates[1].content = PyNone THEN <<>>
             ELSE vendor_response.candidates[1].content.parts

\* the text (or refusal) an item carries, "" if it carries none
EmittedText(item) ==
    CASE provider.name = "openai" ->
             IF get_field(item, "type", NoValue) = "message"
             THEN Join([j \in DOMAIN item.content.v |->
                          get_field(item.content.v[j], "text",
                                    get_field(item.content.v[j], "refusal", ""))])
             ELSE ""
      [] provider.name = "anthropic" ->
             IF item.type = "text" THEN item.text ELSE ""
      [] provider.name = "google" -> get_field(item, "text", "")

\* the function call an item carries with its arguments decoded, PyNone if it
\* carries none (or one whose arguments do not decode)
EmittedCall(item) ==
    CASE provider.name = "openai" ->
             IF get_field(item, "type", NoValue) = "function_call"
                /\ json_loads(item.arguments).kind = "return"
             THEN [name |-> item.name, arguments |-> json_loads(item.arguments).v]
             ELSE PyNone
      [] provider.name = "anthropic" ->
             IF item.type = "tool_use"
             THEN [name |-> item.name, arguments |-> item.input] ELSE PyNone
      [] provider.name = "google" ->
             IF get_field(item, "function_call", PyNone) # PyNone
             THEN [name |-> item.function_call.name, arguments |-> item.function_call.args]
             ELSE PyNone

EmittedTexts == [i \in DOMAIN EmittedItems |-> EmittedText(EmittedItems[i])]

EmittedCalls ==
    SelectSeq([i \in DOMAIN EmittedItems |-> EmittedCall(EmittedItems[i])],
              LAMBDA c : c # PyNone)

\* C27: for each adapter and every vendor response the normalized content is
\* the concatenation in emission order of all text (and refusal) items of the
\* response, and tool_calls lists every function call the vendor emitted, in
\* emission order with its decoded arguments: nothing is dropped, duplicated
\* or reordered. Stated for the calls that are not streamed and whose
\* response carries text, for a model that emits its calls natively.
C27_NothingDropped ==
    (FinalResponseParsed /\ received = <<>> /\ ~is_gemma_model(provider)) =>
        /\ Join(EmittedTexts) # "" => llm_response.content = Join(EmittedTexts)
        /\ [i \in DOMAIN llm_response.tool_calls |->
                [name |-> llm_response.tool_calls[i].name,
                 arguments |-> llm_response.tool_calls[i].arguments]] = EmittedCalls

----------------------------------------------------------------------------
(* Properties of the shell tool's gate *)

\* execute was called with the operators disabled and a string command that
\* contains "|" or ";"
OperatorWhileDisabled ==
    /\ ShellReturned
    /\ HasAttr(config, "allow_shell_operators")
    /\ ~config.allow_shell_operators
    /\ ShellCommand.type = "str"
    /\ HasOperator(ShellCommand.v)

\* execution is enabled, no allow-list is configured and the command holds
\* no blocked substring and none of the fixed dangerous substrings
NothingElseRejects ==
    /\ config.allow_command_execution
    /\ ~Truthy(config.allowed_commands)
    /\ BlockedHits = {}
    /\ \A i \in DOMAIN FixedDangerousPatterns :
           ~Contains(Lower(ShellCommand.v), FixedDangerousPatterns[i])

\* C25 as stated: with allow_shell_operators = false, a command that
\* contains "|" or ";" (and no blocked or other dangerous substring) is
\* tokenized and spawned by direct argv invocation, and is never passed to
\* a shell interpreter.
C25_SpawnedByArgv ==
    (OperatorWhileDisabled /\ NothingElseRejects) =>
        /\ shlex_split(ShellCommand.v).error = NoValue =>
               spawned = <<RunCall(FALSE, shlex_split(ShellCommand.v).tokens)>>
        /\ \A i \in DOMAIN spawned : ~spawned[i].shell

\* C25 as amended: with allow_shell_operators = false, a command that
\* contains "|" or ";" is never passed to a shell interpreter, because it is
\* not spawned at all: execute returns a rejection string, which is
\* "Potentially dangerous command pattern detected: ;" (or ": |" when the
\* command has no ";") when no earlier check rejects the command.
C25_OperatorRejectedWhileDisabled ==
    OperatorWhileDisabled =>
        /\ spawned = <<>>
        /\ tool_raised = NoValue
        /\ IsRejection(tool_result)
        /\ NothingElseRejects =>
               tool_result = "Potentially dangerous command pattern detected: "
                                 \o (IF Contains(ShellCommand.v, ";") THEN ";" ELSE "|")

\* a pipeline was refused with the operators disabled
C25_Witness ==
    /\ OperatorWhileDisabled
    /\ NothingElseRejects
    /\ ShellCommand.v = "ls | wc"
    /\ spawned = <<>>
    /\ tool_result = "Potentially dangerous command pattern detected: |"

\* execute was called with a string command and a non-empty allow-list
AllowListConfigured ==
    /\ ShellReturned
    /\ ShellCommand.type = "str"
    /\ config.allowed_commands.type = "list"
    /\ config.allowed_commands.v # <<>>

\* the sub-commands of the command: split on unquoted "|" and ";"
SubCommands == split_command_chain(ShellCommand.v)

\* the sub-command has a leading token and the allow-list holds it
LeadingTokenAllowed(segment) ==
    \A parts \in {shlex_split(segment)} :
        /\ parts.error = NoValue
        /\ parts.tokens # <<>>
        /\ \E j \in DOMAIN config.allowed_commands.v :
               config.allowed_commands.v[j] = parts.tokens[1]

\* C26: when a non-empty allow-list is configured, the shell tool spawns a
\* subprocess only if the leading token of the command, and of every
\* sub-command obtained by splitting it on unquoted "|" and ";", is in the
\* allow-list; otherwise execute returns without spawning.
C26_SpawnsOnlyAllowListed ==
    AllowListConfigured =>
        \A segments \in {SubCommands} :
            spawned # <<>> =>
                \A k \in DOMAIN segments : LeadingTokenAllowed(segments[k])

\* the leading token of a sub-command, "" if it has none
LeadingToken(segment) ==
    IF shlex_split(segment).error = NoValue /\ shlex_split(segment).tokens # <<>>
    THEN shlex_split(segment).tokens[1] ELSE ""

\* the command is a pipeline in which a curl or wget download is followed
\* by a shell
PipesDownloadIntoShell ==
    /\ ShellCommand.type = "str"
    /\ ~Contains(ShellCommand.v, ";")
    /\ \A segments \in {SubCommands} :
           \E i \in DOMAIN segments :
               /\ i + 1 \in DOMAIN segments
               /\ LeadingToken(segments[i]) \in {"curl", "wget"}
               /\ LeadingToken(segments[i + 1]) \in {"sh", "bash"}

\* C29: even with allow_shell_operators = true and whatever the allow and
\* block lists, no command that pipes the output of a curl or wget download
\* into a shell ("curl <url> | sh", "wget <url> | sh") passes the security
\* gate: every such command is rejected without spawning a subprocess.
C29_DownloadPipeRejected ==
    (ShellReturned /\ OperatorsAllowed /\ PipesDownloadIntoShell) =>
        /\ spawned = <<>>
        /\ IsRejection(tool_result)

----------------------------------------------------------------------------
(* Properties of the turn's progress *)

\* the states of a turn, in the order of the orchestrator's state machine
Stages ==
    <<"IDLE", "CONTEXT_BUILT", "RESPONSE_RECEIVED", "TOOLS_PENDING", "TOOLS_RESOLVED",
      "FOLLOWUP_RECEIVED", "DONE">>

\* where the turn is: the context is built when generate is about to be
\* called, the tools are pending inside the for loop and resolved after it, a
\* response is received when the next statement stores it
Stage ==
    CASE pc \in {"idle", "start_session", "add_user", "context"} -> "IDLE"
      [] pc = "generate" -> "CONTEXT_BUILT"
      [] pc = "add_assistant" /\ Len(responses) = 1 -> "RESPONSE_RECEIVED"
      [] pc \in {"tool_confirm", "tool_execute", "tool_await"} -> "TOOLS_PENDING"
      [] pc = "followup" -> "TOOLS_RESOLVED"
      [] pc = "add_assistant" /\ Len(responses) = 2 -> "FOLLOWUP_RECEIVED"
      [] pc = "done" -> "DONE"

RankOf(stage) == CHOOSE i \in DOMAIN Stages : Stages[i] = stage

ToolStages == {"TOOLS_PENDING", "TOOLS_RESOLVED", "FOLLOWUP_RECEIVED"}

\* one step of the handler: the turn stays in its state, or moves to the next
\* one (a first response with tool calls is received by the step that enters
\* TOOLS_PENDING), or an exception takes it to DONE; only the end of the
\* turn leads back to IDLE
StepInOrder ==
    \A from \in {Stage} : \A to \in {Stage'} :
        \/ from = to
        \/ from = "DONE" /\ to = "IDLE"
        \/ /\ to = "DONE"
           /\ exception' # NoValue
           /\ StartsWith(ret', "LLM Error: ")
        \/ /\ RankOf(to) = RankOf(from) + 1
           /\ from # "RESPONSE_RECEIVED"
           /\ to # "DONE"
        \/ /\ from = "CONTEXT_BUILT" /\ to = "TOOLS_PENDING"
           /\ Len(responses') = 1
           /\ responses'[1].tool_calls # <<>>
        \/ /\ from \in {"RESPONSE_RECEIVED", "FOLLOWUP_RECEIVED"} /\ to = "DONE"
           /\ ret' = response.content

\* what the state of the turn says of the states before it
StagePassed ==
    /\ Stage \in ToolStages => FirstToolCalls # <<>>
    /\ Stage = "RESPONSE_RECEIVED" => FirstToolCalls = <<>>
    /\ (RankOf(Stage) > RankOf("CONTEXT_BUILT") /\ exception = NoValue) =>
           /\ generate_calls # <<>>
           /\ generate_calls[1].messages = context_messages
    /\ Stage \in {"TOOLS_RESOLVED", "FOLLOWUP_RECEIVED"} =>
           Len(tool_results) = Len(FirstToolCalls)
    /\ Stage = "DONE" =>
           /\ raised = NoValue
           /\ ret \in Contents \cup {ChatErrorMsg(m, d) : m \in ErrMsgs, d \in BOOLEAN}
           /\ exception = NoValue =>
                  /\ responses # <<>>
                  /\ FirstToolCalls # <<>> =>
                         /\ Len(responses) = 2
                         /\ Len(tool_results) = Len(FirstToolCalls)

\* C28: every chat turn terminates: provided each provider call, each
\* confirmation prompt and each tool execution eventually returns or raises,
\* the turn passes through IDLE, CONTEXT_BUILT, RESPONSE_RECEIVED, then (only
\* if the first response has tool calls) TOOLS_PENDING, TOOLS_RESOLVED and
\* FOLLOWUP_RECEIVED, in that order and without revisiting a state, and
\* eventually reaches DONE by returning a string.
C28_TurnTerminatesInOrder ==
    /\ [][StepInOrder]_vars
    /\ []StagePassed
    /\ (pc # "idle") ~> (pc = "done" /\ raised = NoValue /\ ret # NoValue)

\* a turn that went through the tool states and returned the follow-up
C28_Witness ==
    /\ Stage = "DONE"
    /\ exception = NoValue
    /\ Len(FirstToolCalls) = 2
    /\ Len(tool_results) = 2
    /\ Len(responses) = 2
    /\ ret = responses[2].content

----------------------------------------------------------------------------
(* Properties of the filesystem tool's dispatch *)

\* the string _read_file returns for a file it read
IsFileContents(s) == StartsWith(s, "Content of ")

\* C30: the filesystem operation performed always matches the tool name the
\* model invoked, whatever argument keys the call carries: a tool call named
\* read_file or list_directory never creates or modifies a file, and a call
\* named write_file never returns file contents.
C30_OperationMatchesName ==
    [][(tool_pc = "ready" /\ tool_pc' = "done" /\ tool_call_name \in FileSystemToolNames) =>
          /\ tool_call_name \in {"read_file", "list_directory"} => filesystem' = filesystem
          /\ tool_call_name = "write_file" => ~IsFileContents(tool_result')]_vars

====
